---- MODULE Spec2Model ----
(***************************************************************************)
(* Sentinel: the evidentiary supervision pipeline.                         *)
(*                                                                         *)
(* State machine of the evidence graph (evidence/graph.py), the boundary   *)
(* detector (boundaries/detect.py), the supervisor policy                  *)
(* (interventions/policy.py), the JSONL trace store (trace/store_jsonl.py) *)
(* the supervisor hook (core/hook.py), the claim extractor                 *)
(* (evidence/claims.py) and the agent loop (agent/loop.py).                *)
(***************************************************************************)
EXTENDS Integers, Sequences, FiniteSets, TLC

(***************************************************************************)
(* Bounds of the model.                                                    *)
(***************************************************************************)
MaxClaims == 5
MaxEvidence == 5
MaxLinked == 1
MaxEdges == 1
MaxIssued == 2
MaxToolCalls == 51
MaxArtifactEvents == 2
MaxAgentEvents == 1
MaxHookToolCalls == 2
MaxGraphClaims == 3
MaxGraphEvidence == 2
MaxGraphEdges == 2
MaxObservations == 1
MaxInitialLines == 2
MaxAppends == 2
MaxWrites == 1
MaxDocLines == 3
MaxDetectClaims == 3
MaxTraceToolCalls == 42
MaxCounted == 82

(***************************************************************************)
(* Program constants.                                                      *)
(***************************************************************************)
EscalateUncovered == 3
ToolCallLimit == 50
MinEvidenceItems == 5
LowRateToolCalls == 20
DefaultWindowSize == 20
TextInSteps == 50
TextInQuery == 100
ThresholdNum == 1
ThresholdDen == 5
SnippetLength == 200
MinKeywordLength == 3

(***************************************************************************)
(* Sequence helpers.                                                       *)
(***************************************************************************)
CountType(events, t) == Cardinality({i \in 1..Len(events) : events[i].type = t})

Repeat(e, n) == [i \in 1..n |-> e]

\* Python's s[:n]
Slice(s, n) == IF Len(s) <= n THEN s ELSE SubSeq(s, 1, n)

(***************************************************************************)
(* Trace events (trace/schema.py).                                         *)
(***************************************************************************)
new_event(event_type, payload) == [type |-> event_type, payload |-> payload]

ToolCallEvent == new_event("tool_call", [tool |-> "github_fetch_issue"])
ObservationEvent == new_event("observation", [tool |-> "github_fetch_issue"])
ArtifactEvent(p) == new_event("artifact", [path |-> p])

(***************************************************************************)
(* Artifact files.  A file is missing, exists but cannot be read (a        *)
(* directory, no permission, bytes that are not UTF-8), or holds a         *)
(* document: a sequence of lines.  A line is a header (with the section    *)
(* name it carries) or body text, described by what the detector's         *)
(* regular expressions find in it.                                         *)
(***************************************************************************)
Paths == {"prd.md", "plan.md"}

Header(name) ==
    [header |-> TRUE, name |-> name, measurable |-> FALSE, tradeoff |-> FALSE,
     hasIn |-> FALSE, hasOut |-> FALSE]
Text(measurable, tradeoff, hasIn, hasOut) ==
    [header |-> FALSE, name |-> "", measurable |-> measurable,
     tradeoff |-> tradeoff, hasIn |-> hasIn, hasOut |-> hasOut]

\* A header with a percentage after the name: "## Metrics: 95% uptime"
HeaderMeasured(name) == [Header(name) EXCEPT !.measurable = TRUE]

\* "TBD."
LineTBD == Text(FALSE, FALSE, FALSE, FALSE)
\* "95% uptime for 1000 users"
LineMeasured == Text(TRUE, FALSE, FALSE, FALSE)
\* "Login is in, SSO is out."
LineInOut == Text(FALSE, FALSE, TRUE, TRUE)
\* "SSO is out of scope; included: login."
LineTradeoff == Text(FALSE, TRUE, TRUE, TRUE)

\* "## Goals / 95% ... / ## Metrics / TBD."
DocEmptyMetrics == <<Header("Goals"), LineMeasured, Header("Metrics"), LineTBD>>
\* "## Metrics / 95% ... / ## Scope / in, out / ## Risks / out of scope"
DocScopeInOut ==
    <<Header("Metrics"), LineMeasured, Header("Scope"), LineInOut,
      Header("Risks"), LineTradeoff>>

FileStates == {"missing", "unreadable", "empty_metrics", "scope_in_out"}

Content(state) ==
    CASE state = "empty_metrics" -> DocEmptyMetrics
      [] state = "scope_in_out" -> DocScopeInOut
      [] state = "goals" -> <<Header("Goals"), LineMeasured>>
      [] state = "metrics_tbd" -> <<Header("Metrics"), LineTBD>>
      [] state = "metrics_in_header" -> <<HeaderMeasured("Metrics"), LineTBD>>
      [] state = "empty_then_measured" -> <<Header("Success Metrics"), LineTBD, Header("Metrics"), LineMeasured>>
      [] state = "measured_then_empty" -> <<Header("Metrics"), LineMeasured, Header("Success Metrics"), LineTBD>>
      [] state = "metrics_subsection" -> <<Header("Metrics"), Header("Latency"), LineMeasured>>
      [] state = "risks" -> <<Header("Risks"), LineTBD>>
      [] OTHER -> <<>>

(***************************************************************************)
(* Evidence graph (evidence/graph.py).  The claim and evidence maps are    *)
(* Python dicts: sequences of records in insertion order, one per id.      *)
(***************************************************************************)
ClaimId(i) == "prd_claim_" \o ToString(i)
EvidenceId(j) == "evidence_" \o ToString(j)

Claim(id, text, section, severity) ==
    [id |-> id, text |-> text, section |-> section, severity |-> severity]
Evidence(id, snippet, source_ref, source_type) ==
    [id |-> id, snippet |-> snippet, source_ref |-> source_ref,
     source_type |-> source_type]
Edge(type, from_id, to_id) == [type |-> type, from_id |-> from_id, to_id |-> to_id]

Keys(map) == {map[i].id : i \in 1..Len(map)}

\* A dict that moves a key to the end when it is assigned again.
PutLast(map, rec) ==
    LET Others(r) == r.id # rec.id
    IN  Append(SelectSeq(map, Others), rec)

\* dict[key] = value: a known key keeps its place, a new key goes last.
Put(map, rec) ==
    IF rec.id \in Keys(map)
    THEN [i \in 1..Len(map) |-> IF map[i].id = rec.id THEN rec ELSE map[i]]
    ELSE Append(map, rec)

add_claim(cs, claim) == Put(cs, claim)

add_evidence(ev, evidence) == Put(ev, evidence)

\* A link_support that appends the edge without looking for it first.
LinkSupportAlways(cs, ev, es, claim_id, evidence_id) ==
    IF claim_id \notin Keys(cs) THEN es
    ELSE IF evidence_id \notin Keys(ev) THEN es
    ELSE Append(es, Edge("supports", evidence_id, claim_id))

\* A link_support that does not look the two ids up.
LinkSupportAnyId(cs, ev, es, claim_id, evidence_id) ==
    IF \E i \in 1..Len(es) :
           /\ es[i].type = "supports"
           /\ es[i].from_id = evidence_id
           /\ es[i].to_id = claim_id
    THEN es
    ELSE Append(es, Edge("supports", evidence_id, claim_id))

link_support(cs, ev, es, claim_id, evidence_id) ==
    IF claim_id \notin Keys(cs) THEN es
    ELSE IF evidence_id \notin Keys(ev) THEN es
    ELSE IF \E i \in 1..Len(es) :
                /\ es[i].type = "supports"
                /\ es[i].from_id = evidence_id
                /\ es[i].to_id = claim_id
         THEN es
         ELSE Append(es, Edge("supports", evidence_id, claim_id))

SeverityOrder(severity) ==
    CASE severity = "HIGH" -> 3
      [] severity = "MEDIUM" -> 2
      [] severity = "LOW" -> 1
      [] OTHER -> 0

MinLevel(min_severity) ==
    IF min_severity \in {"HIGH", "MEDIUM", "LOW"} THEN SeverityOrder(min_severity) ELSE 1

\* A coverage test that looks at the edge's source instead of its target.
HasEvidenceFrom(es, claim_id) ==
    \E i \in 1..Len(es) : es[i].type = "supports" /\ es[i].from_id = claim_id

HasEvidence(es, claim_id) ==
    \E i \in 1..Len(es) : es[i].type = "supports" /\ es[i].to_id = claim_id

\* An uncovered_claims that wants a severity above min_severity.
UncoveredClaimsAbove(cs, es, min_severity) ==
    LET Uncovered(claim) ==
            /\ SeverityOrder(claim.severity) > MinLevel(min_severity)
            /\ ~ HasEvidence(es, claim.id)
    IN  SelectSeq(cs, Uncovered)

uncovered_claims(cs, es, min_severity) ==
    LET Uncovered(claim) ==
            /\ ~ (SeverityOrder(claim.severity) < MinLevel(min_severity))
            /\ ~ HasEvidence(es, claim.id)
    IN  SelectSeq(cs, Uncovered)

(***************************************************************************)
(* Evidence binder (evidence/bind.py).  A text is a string; its keywords   *)
(* are the lowercased words of more than 2 characters that are no          *)
(* stopwords.  A score is the fraction <<shared, all>> of keywords.        *)
(***************************************************************************)
LowerChars == "abcdefghijklmnopqrstuvwxyz0123456789_"
UpperChars == "ABCDEFGHIJKLMNOPQRSTUVWXYZ"

Char(s, i) == SubSeq(s, i, i)

\* str.lower() of one character
LowerChar(c) ==
    IF \E k \in 1..Len(UpperChars) : Char(UpperChars, k) = c
    THEN Char(LowerChars, CHOOSE k \in 1..Len(UpperChars) : Char(UpperChars, k) = c)
    ELSE c

\* \w of the regular expression, on lowercased text
IsWordChar(c) == \E k \in 1..Len(LowerChars) : Char(LowerChars, k) = c

RECURSIVE Lower(_)
Lower(text) ==
    IF Len(text) = 0 THEN ""
    ELSE IF Len(text) = 1 THEN LowerChar(text)
    ELSE Lower(SubSeq(text, 1, Len(text) \div 2))
             \o Lower(SubSeq(text, Len(text) \div 2 + 1, Len(text)))

\* re.findall(r"\b\w+\b", text): the maximal runs of word characters
Words(text) ==
    LET n == Len(text)
        Starts(i) == IsWordChar(Char(text, i)) /\ (i = 1 \/ ~IsWordChar(Char(text, i - 1)))
        Ends(j) == IsWordChar(Char(text, j)) /\ (j = n \/ ~IsWordChar(Char(text, j + 1)))
        EndOf(i) == CHOOSE j \in i..n : Ends(j) /\ \A k \in i..j : ~Ends(k) \/ k = j
    IN  {SubSeq(text, i, EndOf(i)) : i \in {k \in 1..n : Starts(k)}}

Stopwords ==
    {"the", "a", "an", "and", "or", "but", "in", "on", "at", "to", "for", "of",
     "with", "by", "is", "are", "was", "were", "be", "been", "have", "has", "had",
     "do", "does", "did", "will", "would", "should", "could", "may", "might",
     "must", "can"}

extract_keywords(text) == {w \in Words(Lower(text)) : Len(w) >= MinKeywordLength /\ w \notin Stopwords}

(***************************************************************************)
(* Claim extractor (evidence/claims.py).  A document is the sequence of    *)
(* the lines of the file, each line a string.                              *)
(***************************************************************************)
\* \s of the regular expressions and the characters str.strip() removes
IsSpace(c) == c = " " \/ c = "\t"

\* [.!?] of the sentence separator
IsStop(c) == c = "." \/ c = "!" \/ c = "?"

Least(S) == CHOOSE k \in S : \A j \in S : k <= j
Greatest(S) == CHOOSE k \in S : \A j \in S : j <= k

RECURSIVE Ascending(_)
Ascending(S) == IF S = {} THEN <<>> ELSE <<Least(S)>> \o Ascending(S \ {Least(S)})

\* str.strip()
strip(text) ==
    LET kept == {k \in 1..Len(text) : ~IsSpace(Char(text, k))}
    IN  IF kept = {} THEN "" ELSE SubSeq(text, Least(kept), Greatest(kept))

StartsWith(text, prefix) == Len(text) >= Len(prefix) /\ SubSeq(text, 1, Len(prefix)) = prefix

\* The section_patterns dict in its order.  Each pattern is ^#+\s* followed
\* by alternatives; an optional last letter (Goals?) matches without it, and
\* re.match asks for nothing after the alternative, so a pattern matches
\* when the lowercased rest of the line starts with one of these.
section_patterns ==
    << [section |-> "Goals", starts |-> {"goal", "objective"}],
       [section |-> "Non-goals", starts |-> {"non-goal", "nongoal", "out of scope"}],
       [section |-> "Scope", starts |-> {"scope"}],
       [section |-> "Metrics", starts |-> {"metric", "success metric"}],
       [section |-> "Risks", starts |-> {"risk", "risk assessment"}],
       [section |-> "Rollout", starts |-> {"rollout", "launch plan", "deployment"}] >>

\* The number of # the line starts with.
Hashes(line) ==
    LET rest == {k \in 1..Len(line) : Char(line, k) # "#"}
    IN  IF rest = {} THEN Len(line) ELSE Least(rest) - 1

\* The line after ^#+\s*, lowercased for re.IGNORECASE.
AfterHashes(line) ==
    LET body == {k \in (Hashes(line) + 1)..Len(line) : ~IsSpace(Char(line, k))}
    IN  IF body = {} THEN "" ELSE Lower(SubSeq(line, Least(body), Len(line)))

\* re.match(pattern, line, re.IGNORECASE) for the pattern at position p
Matches(p, line) ==
    /\ Hashes(line) > 0
    /\ \E prefix \in section_patterns[p].starts : StartsWith(AfterHashes(line), prefix)

\* current_section before the first header: None, which "if current_section"
\* takes as it takes the empty string.
NoSection == ""

\* The section the first matching pattern names, NoSection when none matches.
MatchSection(line) ==
    LET hits == {p \in 1..Len(section_patterns) : Matches(p, line)}
    IN  IF hits = {} THEN NoSection ELSE section_patterns[Least(hits)].section

\* re.split(r"[.!?]+\s+", text): a separator is a run of stops followed by
\* white space, with all the white space that follows; the fragments are
\* what lies between the separators, in order.  Empty fragments are left
\* out: the caller drops every fragment of 20 characters or less.
split_sentences(text) ==
    LET n == Len(text)
        StopBeforeSpace(k) ==
            /\ IsStop(Char(text, k))
            /\ \E c \in k..(n - 1) :
                  /\ \A j \in k..c : IsStop(Char(text, j))
                  /\ IsSpace(Char(text, c + 1))
        SpaceAfterStop(k) ==
            /\ IsSpace(Char(text, k))
            /\ \E c \in 1..(k - 1) :
                  /\ IsStop(Char(text, c))
                  /\ \A j \in (c + 1)..k : IsSpace(Char(text, j))
        Sep(k) == StopBeforeSpace(k) \/ SpaceAfterStop(k)
        Starts(i) == ~Sep(i) /\ (i = 1 \/ Sep(i - 1))
        Ends(j) == ~Sep(j) /\ (j = n \/ Sep(j + 1))
        EndOf(i) == Least({j \in i..n : Ends(j)})
        starts == Ascending({i \in 1..n : Starts(i)})
    IN  [k \in 1..Len(starts) |-> SubSeq(text, starts[k], EndOf(starts[k]))]

MinSentenceLength == 20

\* The sentences of a line that become claims (claims.py 62-65).
Sentences(line) ==
    LET fragments == split_sentences(strip(line))
        stripped == [k \in 1..Len(fragments) |-> strip(fragments[k])]
    IN  SelectSeq(stripped, LAMBDA s : Len(s) > MinSentenceLength)

\* The severity of a claim of a section (claims.py 69-75).
SeverityOfGoals(section) == "HIGH"

section_severity(section) ==
    IF section \in {"Goals", "Scope", "Metrics", "Rollout"} THEN "HIGH"
    ELSE IF section = "Risks" THEN "MEDIUM"
    ELSE "LOW"

\* pathlib: the final component of a path, and that without its last suffix.
path_name(path) ==
    LET slashes == {k \in 1..Len(path) : Char(path, k) = "/"}
    IN  IF slashes = {} THEN path ELSE SubSeq(path, Greatest(slashes) + 1, Len(path))

path_stem(path) ==
    LET name == path_name(path)
        dots == {k \in 2..Len(name) : Char(name, k) = "."}
    IN  IF dots = {} THEN name ELSE SubSeq(name, 1, Greatest(dots) - 1)

\* A claim as the extractor builds it (claims.py 77-86).
ArtifactClaim(id, text, section, severity, source_line, artifact_path) ==
    [id |-> id, text |-> text, section |-> section, severity |-> severity,
     source_line |-> source_line, artifact_path |-> artifact_path]

\* The lines of the documents of the model.
LineTitle == "# Login latency PRD for the premium tier"
LineGoals == "## Goals"
LineObjectives == "# OBJECTIVES of the release"
LineNonGoals == "## Non-goals"
LineOutOfScope == "## Out of Scope"
LineScope == "##Scope"
LineSuccessMetrics == "## Success Metrics"
LineRisks == "### Risk Assessment"
LineRollout == "## Launch Plan"
LineBackground == "## Background and context"
LineLatency == "Reduce login latency for premium users below 200 ms at the 95th percentile"
LineTwoSentences == "Premium users report slow login times.  Rollback may take a full maintenance window."
LineShort == "Ship it. Now!"
LineBlank == ""
LineMetrics == "## Metrics"
LineToDo == "TBD."

SampleLines ==
    {LineTitle, LineGoals, LineObjectives, LineNonGoals, LineOutOfScope, LineScope,
     LineSuccessMetrics, LineRisks, LineRollout, LineBackground, LineLatency,
     LineTwoSentences, LineShort, LineBlank, LineMetrics, LineToDo}

\* What the loop finds in each line of the model, computed once.
LineFacts == [line \in SampleLines |-> [section |-> MatchSection(line), sentences |-> Sentences(line)]]

\* The section cursor after a line (claims.py 54-57): the section the line
\* matched, or the cursor as it was.
KeepFirstSection(current_section, matched) ==
    IF current_section # NoSection THEN current_section ELSE matched

next_section(current_section, matched) ==
    IF matched # NoSection THEN matched ELSE current_section

\* The loop of claims.py 52-86 from line line_num on, with the section
\* cursor and the claim counter as the lines before left them.
RECURSIVE ExtractFrom(_, _, _, _, _)
ExtractFrom(lines, line_num, current_section, claim_counter, artifact_path) ==
    IF line_num > Len(lines) THEN <<>>
    ELSE
        LET facts == LineFacts[lines[line_num]]
            section == next_section(current_section, facts.section)
            sentences == IF section # NoSection THEN facts.sentences ELSE <<>>
            found == [k \in 1..Len(sentences) |->
                        ArtifactClaim(path_stem(artifact_path) \o "_claim_" \o ToString(claim_counter + k),
                                      sentences[k], section, section_severity(section),
                                      line_num, artifact_path)]
        IN  found \o ExtractFrom(lines, line_num + 1, section, claim_counter + Len(sentences), artifact_path)

\* A path as the extractor finds it: nothing there, something that open or
\* read raises on (a directory, no permission, bytes that are not UTF-8),
\* or a file with lines.
FileMissing == [exists |-> FALSE, readable |-> FALSE, lines |-> <<>>]
FileUnreadable == [exists |-> TRUE, readable |-> FALSE, lines |-> <<>>]
FileWith(lines) == [exists |-> TRUE, readable |-> TRUE, lines |-> lines]

\* extract_claims_from_artifact (claims.py 23-88)
extract_claims_from_artifact(artifact_path, found) ==
    IF ~found.exists THEN [outcome |-> "returned", claims |-> <<>>]
    ELSE IF ~found.readable THEN [outcome |-> "raised", claims |-> <<>>]
    ELSE [outcome |-> "returned", claims |-> ExtractFrom(found.lines, 1, NoSection, 0, artifact_path)]

\* Texts of claims and of evidence sources.
TextLatency == "Reduce login latency for premium users below 200 ms at the 95th percentile"
TextRollback == "Rollback may take a full maintenance window"
TextSlowLogin == "Premium users report slow login times"
TextLatencyAgain == "LOGIN LATENCY: reduce below 200 ms (95th percentile) for premium users."
TextWindow == "Rollback"
TextMaintenance == "Maintenance window for the rollback"
TextUnrelated == "Dark mode for the settings page"
TextLong ==
    "Rollback of the release may take a full maintenance window because the "
        \o "database migration has to be reverted table by table and the caches "
        \o "have to be rebuilt before traffic is switched back to the previous "
        \o "version of the service"

Texts ==
    {TextLatency, TextRollback, TextSlowLogin, TextLatencyAgain, TextWindow,
     TextMaintenance, TextUnrelated, TextLong, "", " ",
     TextSlowLogin \o " ", " " \o TextSlowLogin, TextWindow \o " ",
     TextWindow \o " " \o TextMaintenance,
     TextLatencyAgain \o " " \o TextLatency,
     LineTitle, LineObjectives, LineBackground, TextRollback \o "."}

\* The keywords of every text of the model, extracted once.
Keywords == [text \in Texts |-> extract_keywords(text)]

keyword_overlap(text1, text2) ==
    LET keywords1 == Keywords[text1]
        keywords2 == Keywords[text2]
    IN  IF keywords1 = {} \/ keywords2 = {} THEN <<0, 1>>
        ELSE <<Cardinality(keywords1 \cap keywords2), Cardinality(keywords1 \cup keywords2)>>

\* score1 > score2 on fractions with positive denominators
Greater(score1, score2) == score1[1] * score2[2] > score2[1] * score1[2]

\* score > 0.2
AboveThreshold(score) == Greater(score, <<ThresholdNum, ThresholdDen>>)

\* A bundle: a dict with the keys issues, milestone and evidence_items; a
\* key the dict lacks is the empty list or the milestone without description.
Issue(number, title, body) == [number |-> number, title |-> title, body |-> body]

Milestone(number, description) == [number |-> number, description |-> description]

Bundle(issues, milestone, evidence_items) ==
    [issues |-> issues, milestone |-> milestone, evidence_items |-> evidence_items]

Source(text, source_ref, source_type) ==
    [text |-> text, source_ref |-> source_ref, source_type |-> source_type]

IssueSources(bundle) ==
    [i \in 1..Len(bundle.issues) |->
        Source(bundle.issues[i].title \o " " \o bundle.issues[i].body,
            "issue:" \o ToString(bundle.issues[i].number), "issue")]

MilestoneSources(bundle) ==
    IF bundle.milestone.description # ""
    THEN <<Source(bundle.milestone.description,
               "milestone:" \o ToString(bundle.milestone.number), "milestone")>>
    ELSE <<>>

\* The result of an observation: payload["result"] or payload["data"], a
\* dict with a title and/or a body, a dict with neither, or no dict at all.
ResultOf(event) ==
    IF "result" \in DOMAIN event.payload THEN event.payload.result
    ELSE IF "data" \in DOMAIN event.payload THEN event.payload.data
    ELSE [dict |-> FALSE]

ResultText(result) ==
    IF "title" \in DOMAIN result /\ "body" \in DOMAIN result
    THEN result.title \o " " \o result.body
    ELSE IF "title" \in DOMAIN result THEN result.title
    ELSE result.body

HasResultText(event) ==
    /\ event.type = "observation"
    /\ ResultOf(event).dict
    /\ DOMAIN ResultOf(event) \cap {"title", "body"} # {}

\* The timestamp of an event is left out of the model.
TraceSources(trace_events) ==
    LET observed == SelectSeq(trace_events, HasResultText)
    IN  [i \in 1..Len(observed) |->
            Source(ResultText(ResultOf(observed[i])), "trace:ts", "tool_call")]

EvidenceSources(trace_events, bundle) ==
    IssueSources(bundle) \o MilestoneSources(bundle) \o TraceSources(trace_events)

\* The scan of the pool for one claim: the index of the best match so far
\* (0: none) and its score.
RECURSIVE ScanSources(_, _, _, _, _)
ScanSources(claim, sources, i, best_match, best_score) ==
    IF i > Len(sources) THEN best_match
    ELSE LET score == keyword_overlap(claim.text, sources[i].text)
         IN  IF Greater(score, best_score) /\ AboveThreshold(score)
             THEN ScanSources(claim, sources, i + 1, i, score)
             ELSE ScanSources(claim, sources, i + 1, best_match, best_score)

BestMatch(claim, sources) == ScanSources(claim, sources, 1, 0, <<0, 1>>)

Graph(cs, ev, es) == [claims |-> cs, evidence |-> ev, edges |-> es]

\* The loop of bind_evidence over the claims, from claim number i on.
RECURSIVE BindClaims(_, _, _, _, _, _)
BindClaims(claim_list, sources, i, graph, evidence_counter, evidence_list) ==
    IF i > Len(claim_list) THEN [graph |-> graph, evidence_list |-> evidence_list]
    ELSE LET claim == claim_list[i]
             best_match == BestMatch(claim, sources)
             evidence_id == "evidence_" \o ToString(evidence_counter + 1)
             found == Evidence(evidence_id,
                          Slice(sources[best_match].text, SnippetLength),
                          sources[best_match].source_ref,
                          sources[best_match].source_type)
             added == add_evidence(graph.evidence, found)
             linked == link_support(graph.claims, added, graph.edges,
                           claim.id, evidence_id)
         IN  IF best_match = 0
             THEN BindClaims(claim_list, sources, i + 1, graph, evidence_counter,
                      evidence_list)
             ELSE BindClaims(claim_list, sources, i + 1,
                      Graph(graph.claims, added, linked), evidence_counter + 1,
                      Append(evidence_list, found))

bind_evidence(claim_list, trace_events, bundle, graph) ==
    BindClaims(claim_list, EvidenceSources(trace_events, bundle), 1, graph, 0, <<>>)

(***************************************************************************)
(* Boundary detector (boundaries/detect.py).                               *)
(***************************************************************************)
BoundaryEvent(type, section, claim_id, rationale) ==
    [type |-> type, section |-> section, claim_id |-> claim_id,
     rationale |-> rationale]

\* One event for the first uncovered claim only.
MissingEvidenceFirst(uncovered) ==
    IF uncovered = <<>> THEN <<>>
    ELSE <<BoundaryEvent("missing_evidence", uncovered[1].section, uncovered[1].id, "")>>

MissingEvidence(uncovered) ==
    [i \in 1..Len(uncovered) |->
        BoundaryEvent("missing_evidence", uncovered[i].section, uncovered[i].id,
            "HIGH severity claim in " \o uncovered[i].section
                \o " has no supporting evidence")]

\* The body of the first section whose header carries one of the names:
\* what the header line holds after the name (group(1) starts there) and
\* the lines after it up to the next header line or the end.
RECURSIVE UpToHeader(_)
UpToHeader(lines) ==
    IF lines = <<>> THEN <<>>
    ELSE IF Head(lines).header THEN <<>>
    ELSE <<Head(lines)>> \o UpToHeader(Tail(lines))

RECURSIVE SectionBody(_, _)
SectionBody(doc, names) ==
    IF doc = <<>> THEN <<>>
    ELSE IF Head(doc).header /\ Head(doc).name \in names THEN <<Head(doc)>> \o UpToHeader(Tail(doc))
    ELSE SectionBody(Tail(doc), names)

HasSection(doc, names) ==
    \E i \in 1..Len(doc) : doc[i].header /\ doc[i].name \in names

MetricsNames == {"Metrics", "Metric", "Success Metrics", "Success Metric"}

\* A Metrics section, whatever it holds.
HasMetricsSection(doc) == HasSection(doc, MetricsNames)

EmptyMetrics(doc) ==
    /\ HasSection(doc, MetricsNames)
    /\ LET body == SectionBody(doc, MetricsNames)
       IN  ~ \E i \in 1..Len(body) : body[i].measurable

MissingTradeoffs(doc) ==
    /\ HasSection(doc, {"Scope"})
    /\ LET body == SectionBody(doc, {"Scope"})
       IN  /\ ~ \E i \in 1..Len(body) : body[i].tradeoff
           /\ \E i \in 1..Len(body) : body[i].hasIn
           /\ \E i \in 1..Len(body) : body[i].hasOut

ArtifactBoundaries(doc) ==
    (IF EmptyMetrics(doc)
     THEN <<BoundaryEvent("empty_metrics", "Metrics", "",
                "Metrics section exists but lacks measurable indicators")>>
     ELSE <<>>)
    \o
    (IF MissingTradeoffs(doc)
     THEN <<BoundaryEvent("missing_tradeoffs", "Scope", "",
                "Scope section mentions in/out but lacks explicit tradeoffs")>>
     ELSE <<>>)

IsArtifactWithPath(event) == event.type = "artifact"

RECURSIVE ScanArtifacts(_, _)
ScanArtifacts(artifact_events, fs) ==
    IF artifact_events = <<>> THEN <<>>
    ELSE LET path == Head(artifact_events).payload.path
             rest == ScanArtifacts(Tail(artifact_events), fs)
         IN  IF fs[path] # "missing"
             THEN ArtifactBoundaries(Content(fs[path])) \o rest
             ELSE rest

\* open()/read() of a path that exists but cannot be read raises.
ReadRaises(events, fs) ==
    \E i \in 1..Len(events) :
        events[i].type = "artifact" /\ fs[events[i].payload.path] = "unreadable"

\* The rate test with observations at 30% counted as low.
LowEvidenceRateInclusive(events) ==
    LET calls == CountType(events, "tool_call")
        observations == CountType(events, "observation")
    IN  IF calls > LowRateToolCalls /\ 10 * observations <= 3 * calls
        THEN <<BoundaryEvent("low_evidence_rate", "", "", "")>>
        ELSE <<>>

LowEvidenceRate(events) ==
    LET calls == CountType(events, "tool_call")
        observations == CountType(events, "observation")
    IN  IF calls > LowRateToolCalls /\ 10 * observations < 3 * calls
        THEN <<BoundaryEvent("low_evidence_rate", "", "",
                   "Agent made " \o ToString(calls)
                       \o " tool calls but few resulted in evidence binding")>>
        ELSE <<>>

detect_boundaries(events, cs, es, fs) ==
    IF ReadRaises(events, fs)
    THEN [raised |-> TRUE, boundaries |-> <<>>]
    ELSE [raised |-> FALSE,
          boundaries |-> MissingEvidence(uncovered_claims(cs, es, "HIGH"))
                             \o ScanArtifacts(SelectSeq(events, IsArtifactWithPath), fs)
                             \o LowEvidenceRate(events)]

(***************************************************************************)
(* Interventions (interventions/types.py).                                 *)
(***************************************************************************)
Intervention(type, target_id, rationale, suggested_next_steps, suggested_tool_calls) ==
    [type |-> type, target_id |-> target_id, rationale |-> rationale,
     suggested_next_steps |-> suggested_next_steps,
     suggested_tool_calls |-> suggested_tool_calls]

\* Python's None, as the value of an Optional[Intervention].
None == [type |-> "None"]

(***************************************************************************)
(* JSONL trace store (trace/store_jsonl.py).  An append writes one line,   *)
(* or raises when the file cannot be opened or written (ok = FALSE).       *)
(***************************************************************************)
\* A store whose append opens the file in "w" mode.
JsonlAppendTruncating(log, event, ok) == IF ok THEN <<event>> ELSE log

JsonlAppend(log, event, ok) == IF ok THEN Append(log, event) ELSE log

\* EventType
EventTypes ==
    {"tool_call", "observation", "artifact", "decision", "intervention",
     "escalation_packet", "llm_call"}

\* Event.model_dump(): the dict of the fields of the event.
model_dump(event) == [type |-> event.type, payload |-> event.payload]

\* A line of the file is described by what json.loads makes of it: an
\* object (and its keys and values), an array, a number or null, nothing
\* (the text is no JSON: a truncated line), or it is blank.
json_dumps(data) == [json |-> "object", data |-> data]

BlankLine == [json |-> "blank"]
TruncatedLine == [json |-> "invalid"]
ArrayLine == [json |-> "array"]
NumberLine == [json |-> "number"]
NullLine == [json |-> "null"]

\* Event(**data) validates: type is an EventType and payload is there.
Validates(data) ==
    /\ "type" \in DOMAIN data
    /\ "payload" \in DOMAIN data
    /\ data.type \in EventTypes

\* Event(**data) for data that validates; other keys are ignored.
EventOf(data) == [type |-> data.type, payload |-> data.payload]

\* The loop of iter_events from line number i on: a blank line is passed
\* over, a JSONDecodeError and the ValueError of a failed validation are
\* caught, the TypeError of Event(**data) for data that is no dict is not.
RECURSIVE IterLines(_, _, _)
IterLines(lines, i, events) ==
    IF i > Len(lines) THEN [outcome |-> "returned", events |-> events]
    ELSE IF lines[i].json \in {"blank", "invalid"} THEN IterLines(lines, i + 1, events)
    ELSE IF lines[i].json # "object" THEN [outcome |-> "raised", events |-> events]
    ELSE IF Validates(lines[i].data)
         THEN IterLines(lines, i + 1, Append(events, EventOf(lines[i].data)))
         ELSE IterLines(lines, i + 1, events)

\* list(store.iter_events()): the events yielded, and how the iteration
\* ended.  A file that does not exist reads as the empty one.
iter_events(lines) == IterLines(lines, 1, <<>>)

\* The writers of one trace file: a process with its own store, and two
\* threads of another process that share one store.
Writers == {"p1", "t1", "t2"}
Stores == {"s1", "s2"}
StoreOf(w) == IF w = "p1" THEN "s1" ELSE "s2"

\* JsonlTraceStore.__init__
NewStore == [opened |-> FALSE, lock_acquired |-> FALSE, buffer |-> <<>>]

IdleWriter == [pc |-> "idle", done |-> 0]

\* What a writer writes: the line of its event, as one piece or, when the
\* operating system takes only a part of the bytes, as a head and a tail.
Piece(w, n, part) ==
    [line |-> json_dumps(model_dump(new_event("tool_call", [tool |-> w, call |-> n]))),
     part |-> part]

(***************************************************************************)
(* Supervisor policy (interventions/policy.py).                            *)
(***************************************************************************)
\* A count of every event of the window, whatever its type.
CountAllEvents(events) == Len(events)

CountToolCalls(events) == CountType(events, "tool_call")

\* A claim rule without the escalation branch.
ClaimRuleRequestOnly(uncovered) ==
    IF uncovered = <<>> THEN None
    ELSE Intervention("REQUEST_EVIDENCE", uncovered[1].id,
             "HIGH severity claim in " \o uncovered[1].section \o " needs evidence",
             <<>>, <<>>)

\* Rule on uncovered HIGH claims.
ClaimRule(uncovered) ==
    IF uncovered = <<>> THEN None
    ELSE IF Len(uncovered) >= EscalateUncovered
    THEN Intervention("ESCALATE", "multiple_claims",
             ToString(Len(uncovered)) \o " HIGH severity claims lack evidence",
             <<"Review uncovered claims",
               "Gather additional evidence from GitHub issues",
               "Consider reducing scope or clarifying requirements">>,
             <<>>)
    ELSE LET claim == uncovered[1]
         IN  Intervention("REQUEST_EVIDENCE", claim.id,
                 "HIGH severity claim in " \o claim.section \o " needs evidence",
                 <<"Fetch issue details related to: "
                       \o Slice(claim.text, TextInSteps) \o "...",
                   "Search GitHub issues for relevant keywords",
                   "Review milestone description">>,
                 <<[tool |-> "github_fetch_issue",
                    params |-> [query |-> Slice(claim.text, TextInQuery)]]>>)

\* A boundary rule that looks for empty_metrics signals first.
BoundaryRuleMetricsFirst(boundaries) ==
    LET IsEmptyMetrics(boundary) == boundary.type = "empty_metrics"
        IsMissingTradeoffs(boundary) == boundary.type = "missing_tradeoffs"
        metrics == SelectSeq(boundaries, IsEmptyMetrics)
        tradeoffs == SelectSeq(boundaries, IsMissingTradeoffs)
    IN  IF metrics # <<>>
        THEN Intervention("REQUEST_METRICS", metrics[1].section, metrics[1].rationale,
                 <<>>, <<>>)
        ELSE IF tradeoffs # <<>>
        THEN Intervention("REQUEST_OPTIONS", tradeoffs[1].section, tradeoffs[1].rationale,
                 <<>>, <<>>)
        ELSE None

\* Rule on boundary signals, scanned in detection order.
RECURSIVE BoundaryRule(_)
BoundaryRule(boundaries) ==
    IF boundaries = <<>> THEN None
    ELSE LET boundary == Head(boundaries)
         IN  IF boundary.type = "empty_metrics"
             THEN Intervention("REQUEST_METRICS", boundary.section, boundary.rationale,
                      <<"Add measurable success metrics",
                        "Include specific targets (e.g., '95% uptime', '1000 users')">>,
                      <<>>)
             ELSE IF boundary.type = "missing_tradeoffs"
             THEN Intervention("REQUEST_OPTIONS", boundary.section, boundary.rationale,
                      <<"Explicitly list what's out of scope",
                        "Explain tradeoffs and alternatives considered">>,
                      <<>>)
             ELSE BoundaryRule(Tail(boundaries))

\* A tool call rule that fires at the limit already.
ToolLimitRuleAtLimit(count, total_evidence) ==
    IF count >= ToolCallLimit /\ total_evidence < MinEvidenceItems
    THEN Intervention("ESCALATE", "tool_call_limit", "Agent made too many tool calls",
             <<>>, <<>>)
    ELSE None

\* Rule on too many tool calls without progress.
ToolLimitRule(count, total_evidence) ==
    IF count > ToolCallLimit /\ total_evidence < MinEvidenceItems
    THEN Intervention("ESCALATE", "tool_call_limit",
             "Agent made " \o ToString(count) \o " tool calls but only found "
                 \o ToString(total_evidence) \o " evidence items",
             <<"Review agent's tool usage",
               "Consider if agent is stuck in a loop",
               "Check if GitHub data is sufficient">>,
             <<>>)
    ELSE None

\* A ladder that looks at the boundary signals before the claims.
DecideBoundariesFirst(uncovered, boundaries, count, total_evidence) ==
    IF BoundaryRule(boundaries) # None THEN BoundaryRule(boundaries)
    ELSE IF uncovered # <<>> THEN ClaimRule(uncovered)
    ELSE ToolLimitRule(count, total_evidence)

\* The rule ladder of analyze_step, first rule that fires.
Decide(uncovered, boundaries, count, total_evidence) ==
    IF uncovered # <<>> THEN ClaimRule(uncovered)
    ELSE IF BoundaryRule(boundaries) # None THEN BoundaryRule(boundaries)
    ELSE ToolLimitRule(count, total_evidence)

InterventionEvent(intervention) ==
    new_event("intervention",
        [type |-> intervention.type,
         target_id |-> intervention.target_id,
         rationale |-> intervention.rationale,
         suggested_next_steps |-> intervention.suggested_next_steps,
         suggested_tool_calls |-> intervention.suggested_tool_calls])

\* An emit that writes the trace event and leaves the history alone.
EmitTraceOnly(issued, log, intervention, ok) ==
    [issued |-> issued,
     log |-> JsonlAppend(log, InterventionEvent(intervention), ok),
     raised |-> ~ok]

\* _emit_intervention: the history first, then the trace.
EmitIntervention(issued, log, intervention, ok) ==
    [issued |-> Append(issued, intervention),
     log |-> JsonlAppend(log, InterventionEvent(intervention), ok),
     raised |-> ~ok]

\* analyze_step on supervisor state (count, issued), graph (cs, ev, es), trace
\* store (log) and files (fs): the state it leaves and how the call ends.
analyze_step(count, issued, log, cs, ev, es, fs, events, ok) ==
    LET counted == count + CountToolCalls(events)
        detected == detect_boundaries(events, cs, es, fs)
        uncovered == uncovered_claims(cs, es, "HIGH")
        intervention == Decide(uncovered, detected.boundaries, counted, Len(ev))
        emitted == EmitIntervention(issued, log, intervention, ok)
    IN  IF detected.raised
        THEN [count |-> counted, issued |-> issued, log |-> log,
              outcome |-> "raised", ret |-> None]
        ELSE IF intervention = None
        THEN [count |-> counted, issued |-> issued, log |-> log,
              outcome |-> "returned", ret |-> None]
        ELSE [count |-> counted, issued |-> emitted.issued, log |-> emitted.log,
              outcome |-> IF emitted.raised THEN "raised" ELSE "returned",
              ret |-> IF emitted.raised THEN None ELSE intervention]

(***************************************************************************)
(* Decision packets (packets/decision_packet.py) and the supervisor hook   *)
(* (core/hook.py).                                                         *)
(***************************************************************************)
RunId == "run_1"

PacketPath(packet_num) == "packets/packet_" \o ToString(packet_num) \o ".md"

\* generate_packet: writes packet_<n>.md, n the number of packets in the
\* directory, then appends the escalation_packet event.
generate_packet(log, packet_files, interventions, cs, es, ok) ==
    [packet_files |-> packet_files + 1,
     log |-> JsonlAppend(log,
                 new_event("escalation_packet",
                     [run_id |-> RunId,
                      packet_path |-> PacketPath(packet_files),
                      intervention_count |-> Len(interventions),
                      uncovered_claims_count |-> Len(uncovered_claims(cs, es, "HIGH"))]),
                 ok),
     raised |-> ~ok]

\* An escalation handling that records the decision before the packet.
HandleEscalationDecisionFirst(log, packet_files, hook_ivs, intervention, cs, es, configured, ok_packet, ok_decision) ==
    LET decision == new_event("decision",
                        [type |-> "escalation", run_id |-> RunId,
                         intervention_count |-> Len(hook_ivs)])
        packet == generate_packet(JsonlAppend(log, decision, ok_decision), packet_files,
                      <<intervention>>, cs, es, ok_packet)
    IN  IF ~configured
        THEN [log |-> log, packet_files |-> packet_files, raised |-> FALSE]
        ELSE [log |-> packet.log, packet_files |-> packet.packet_files,
              raised |-> ~ok_decision \/ packet.raised]

\* SupervisorHook._handle_escalation; ok_packet and ok_decision tell whether
\* the two appends to the trace store succeed.
handle_escalation(log, packet_files, hook_ivs, intervention, cs, es, configured, ok_packet, ok_decision) ==
    LET packet == generate_packet(log, packet_files, <<intervention>>, cs, es, ok_packet)
        decision == new_event("decision",
                        [type |-> "escalation", run_id |-> RunId,
                         intervention_count |-> Len(hook_ivs)])
    IN  IF ~configured
        THEN [log |-> log, packet_files |-> packet_files, raised |-> FALSE]
        ELSE IF packet.raised
        THEN [log |-> packet.log, packet_files |-> packet.packet_files, raised |-> TRUE]
        ELSE [log |-> JsonlAppend(packet.log, decision, ok_decision),
              packet_files |-> packet.packet_files,
              raised |-> ~ok_decision]

\* A hook that hands the whole trace to the supervisor.
RecentEventsAll(all_events, window_size) == all_events

\* Python's events[-n:] if len(events) > n else events
RecentEvents(all_events, window_size) ==
    IF Len(all_events) > window_size
    THEN IF window_size = 0 THEN all_events
         ELSE SubSeq(all_events, Len(all_events) - window_size + 1, Len(all_events))
    ELSE all_events

\* The handler's answer: None, a dict without a true "stop", a dict with
\* stop = True.
Responses == {"None", "continue", "stop"}

\* The ESCALATE that replaces an intervention the handler stopped.
HandlerEscalation(intervention) ==
    Intervention("ESCALATE", intervention.target_id,
        "Handler requested escalation: " \o intervention.rationale,
        intervention.suggested_next_steps, <<>>)

ReplaceLast(seq, x) == [seq EXCEPT ![Len(seq)] = x]

\* SupervisorHook.evidence_source: None, or a source and the items it gives.
NoEvidenceSource == [set |-> FALSE, items |-> <<>>]

EvidenceSource(items) == [set |-> TRUE, items |-> items]

NoMilestone == Milestone(0, "")

EmptyBundle == Bundle(<<>>, NoMilestone, <<>>)

\* The bundle SupervisorHook._bind_evidence hands to bind_evidence.
HookBundle(evidence_source, bundle) ==
    IF evidence_source.set
    THEN Bundle(<<>>, NoMilestone, evidence_source.items)
    ELSE bundle

\* SupervisorHook._bind_evidence on the hook's graph and trace store.
hook_bind_evidence(graph, log, evidence_source, bundle) ==
    IF graph.claims = <<>> THEN [graph |-> graph, evidence_list |-> <<>>]
    ELSE bind_evidence(graph.claims, log, HookBundle(evidence_source, bundle), graph)

\* A hook that escalates on any answer of the handler.
AfterHandlerAnyAnswer(intervention, handler_set, response) ==
    IF handler_set /\ response # "None"
    THEN HandlerEscalation(intervention)
    ELSE intervention

\* What on_step does with the supervisor's intervention (not None).
AfterHandler(intervention, handler_set, response) ==
    IF handler_set /\ response = "stop"
    THEN HandlerEscalation(intervention)
    ELSE intervention

\* on_step on the hook's state; fail is the number of the trace append that
\* raises (0: none does).
on_step(count, issued, log, hook_ivs, packet_files, cs, ev, es, fs, events, handler_set, packets_set, response, fail) ==
    LET call == analyze_step(count, issued, log, cs, ev, es, fs, events, fail # 1)
        intervention == AfterHandler(call.ret, handler_set, response)
        recorded == IF intervention = call.ret
                    THEN Append(hook_ivs, call.ret)
                    ELSE ReplaceLast(Append(hook_ivs, call.ret), intervention)
        escalation == handle_escalation(call.log, packet_files, recorded, intervention,
                          cs, es, packets_set, fail # 2, fail # 3)
    IN  IF call.outcome = "raised" \/ call.ret = None
        THEN [count |-> call.count, issued |-> call.issued, log |-> call.log,
              hook_ivs |-> hook_ivs, packet_files |-> packet_files,
              original |-> call.ret, escalated |-> FALSE,
              outcome |-> call.outcome, ret |-> None]
        ELSE IF intervention.type # "ESCALATE"
        THEN [count |-> call.count, issued |-> call.issued, log |-> call.log,
              hook_ivs |-> recorded, packet_files |-> packet_files,
              original |-> call.ret, escalated |-> FALSE,
              outcome |-> "returned", ret |-> intervention]
        ELSE [count |-> call.count, issued |-> call.issued, log |-> escalation.log,
              hook_ivs |-> recorded, packet_files |-> escalation.packet_files,
              original |-> call.ret, escalated |-> TRUE,
              outcome |-> IF escalation.raised THEN "raised" ELSE "returned",
              ret |-> IF escalation.raised THEN None ELSE intervention]

(***************************************************************************)
(* State.                                                                  *)
(***************************************************************************)
VARIABLES
    claims,                 \* EvidenceGraph.claims
    evidence,               \* EvidenceGraph.evidence
    edges,                  \* EvidenceGraph.edges
    trace,                  \* the lines of the trace file
    tool_call_count,        \* Supervisor.tool_call_count
    interventions_issued,   \* Supervisor.interventions_issued
    hook_interventions,     \* SupervisorHook.interventions
    handler_set,            \* SupervisorHook.intervention_handler is not None
    packets_set,            \* SupervisorHook.packets_dir and run_id are set
    packet_files,           \* the number of packet_*.md files in packets_dir
    last,                   \* the last supervisor call: its inputs and how it ended
    file,                   \* the trace file as a JsonlTraceStore finds it: its lines
    appended,               \* the events whose append returned, in call order
    platform,               \* sys.platform of the writers of the trace file
    stores,                 \* per JsonlTraceStore: _file, _lock_acquired, unflushed text
    flock,                  \* the open file description that holds the flock
    writers,                \* per writer: its position in append, its appends so far
    artifacts,              \* SupervisorHook.artifacts: the <<name, path>> pairs
    run,                    \* run_agent_with_supervisor: its position and its local graph
    linkers,                \* per concurrent caller of link_support: its position and arguments
    locking,                \* the callers wrap link_support in a lock of their own
    lock,                   \* the caller that holds that lock
    request,                \* GitHubClient._request: its position, attempts, answers and waits
    agent                   \* PRDAgent.run: its position, iteration and pending tool calls

vars == <<claims, evidence, edges, trace, tool_call_count, interventions_issued,
          hook_interventions, handler_set, packets_set, packet_files, last,
          file, appended, platform, stores, flock, writers, artifacts, run,
          linkers, locking, lock, request, agent>>

graphVars == <<claims, evidence, edges>>
supervisorVars == <<tool_call_count, interventions_issued>>
hookVars == <<hook_interventions, handler_set, packets_set, packet_files>>
storeVars == <<file, appended>>
writerVars == <<platform, stores, flock, writers>>
artifactVars == <<artifacts, run>>
agentVars == <<request, agent>>
linkVars == <<linkers, locking, lock, agentVars>>

\* The threads that call link_support on one graph, and a thread outside
\* of a call.
Callers == {"c1", "c2"}
IdleCaller == [pc |-> "idle", claim_id |-> "", evidence_id |-> ""]

\* No response and no exception.
NoResponse == [kind |-> "none", name |-> "", status |-> 0, retry_after |-> [present |-> FALSE, value |-> ""]]
NoException == [name |-> "", message |-> ""]

\* GitHubClient._request has not been called.
NoRequest == [pc |-> "none", attempt |-> 0, answers |-> <<>>, waits |-> <<>>, outcome |-> "none", ret |-> NoResponse, exception |-> NoException]

\* PRDAgent.run has not been called.
NoAgent == [pc |-> "none", iteration |-> 0, llm_calls |-> 0, pending |-> <<>>, next_id |-> 1, failed |-> 0]

\* run_agent_with_supervisor has not been called.
NoRun == [pc |-> "none", graph |-> Graph(<<>>, <<>>, <<>>)]

NoCall ==
    [op |-> "none", tool_calls |-> 0, uncovered |-> <<>>, boundaries |-> <<>>,
     count_before |-> 0, total_evidence |-> 0, issued_before |-> <<>>,
     trace_before |-> <<>>, hook_before |-> <<>>, packets_before |-> 0,
     response |-> "None", original |-> None, escalated |-> FALSE,
     outcome |-> "none", ret |-> None]

\* The claims of the artifact, in extraction order: the second one is a
\* Risks claim (MEDIUM), the others are Goals claims (HIGH).
ExtractedClaim(i) ==
    IF i = 2
    THEN Claim(ClaimId(i), "Rollback may take a full maintenance window",
             "Risks", "MEDIUM")
    ELSE Claim(ClaimId(i),
             "Reduce login latency for premium users below 200 ms at the 95th percentile",
             "Goals", "HIGH")

\* Windows of trace events handed to analyze_step: tool calls, observations
\* and artifact events.
WindowShapes == {<<0, 0>>, <<25, 8>>, <<26, 0>>}

PathAt(i) == IF i % 2 = 1 THEN "prd.md" ELSE "plan.md"

ArtifactSeqs == {[i \in 1..n |-> PathAt(i)] : n \in 0..MaxArtifactEvents}

Window(shape, arts) ==
    Repeat(ToolCallEvent, shape[1]) \o Repeat(ObservationEvent, shape[2])
        \o [i \in 1..Len(arts) |-> ArtifactEvent(arts[i])]

\* The files as the call finds them; a file no event names is left out.
FileViews(arts) ==
    {fs \in [Paths -> FileStates] :
        \A p \in Paths : (\A i \in 1..Len(arts) : arts[i] # p) => fs[p] = "missing"}

\* The run is followed until MaxIssued interventions have been issued.
Running == Len(interventions_issued) < MaxIssued

\* The caller is between two calls: the result of the last one has been taken.
Idle == Running /\ last.op = "none"

\* The graph and the agent's part of the trace are built before the first
\* intervention is issued.
Building == Idle /\ interventions_issued = <<>>

Init ==
    /\ claims = <<>>
    /\ evidence = <<>>
    /\ edges = <<>>
    /\ trace = <<>>
    /\ tool_call_count = 0
    /\ interventions_issued = <<>>
    /\ hook_interventions = <<>>
    /\ handler_set = FALSE
    /\ packets_set = FALSE
    /\ packet_files = 0
    /\ last = NoCall
    /\ file = <<>>
    /\ appended = <<>>
    /\ platform = "linux"
    /\ stores = [st \in Stores |-> NewStore]
    /\ flock = "none"
    /\ writers = [w \in Writers |-> IdleWriter]
    /\ artifacts = {}
    /\ run = NoRun
    /\ linkers = [c \in Callers |-> IdleCaller]
    /\ locking = FALSE
    /\ lock = "none"
    /\ request = NoRequest
    /\ agent = NoAgent

(***************************************************************************)
(* Actions.                                                                *)
(***************************************************************************)
\* EvidenceGraph.add_claim
AddClaim(i) ==
    /\ Building
    /\ i <= Len(claims) + 1
    /\ claims' = add_claim(claims, ExtractedClaim(i))
    /\ UNCHANGED last
    /\ UNCHANGED <<evidence, edges, trace, supervisorVars, hookVars, storeVars, writerVars, artifactVars, linkVars>>

\* EvidenceGraph.add_evidence
AddEvidence(j) ==
    /\ Building
    /\ j <= Len(evidence) + 1
    /\ evidence' = add_evidence(evidence,
                       Evidence(EvidenceId(j), "Premium users report slow login times",
                           "issue:42", "issue"))
    /\ UNCHANGED last
    /\ UNCHANGED <<claims, edges, trace, supervisorVars, hookVars, storeVars, writerVars, artifactVars, linkVars>>

\* EvidenceGraph.link_support
LinkSupport(i, j) ==
    /\ Building
    /\ Len(link_support(claims, evidence, edges, ClaimId(i), EvidenceId(j))) <= MaxEdges
    /\ edges' = link_support(claims, evidence, edges, ClaimId(i), EvidenceId(j))
    /\ UNCHANGED last
    /\ UNCHANGED <<claims, evidence, trace, supervisorVars, hookVars, storeVars, writerVars, artifactVars, linkVars>>

\* Supervisor.analyze_step, called by the driver with a window of events.
AnalyzeStep(events, fs, ok) ==
    /\ Idle
    /\ tool_call_count + CountToolCalls(events) <= MaxToolCalls
    /\ \E call \in {analyze_step(tool_call_count, interventions_issued, trace,
                        claims, evidence, edges, fs, events, ok)} :
           /\ tool_call_count' = call.count
           /\ interventions_issued' = call.issued
           /\ trace' = call.log
           /\ last' = [op |-> "analyze_step",
                       tool_calls |-> CountType(events, "tool_call"),
                       uncovered |-> uncovered_claims(claims, edges, "HIGH"),
                       boundaries |-> detect_boundaries(events, claims, edges, fs).boundaries,
                       count_before |-> tool_call_count,
                       total_evidence |-> Len(evidence),
                       issued_before |-> interventions_issued,
                       trace_before |-> trace,
                       hook_before |-> hook_interventions,
                       packets_before |-> packet_files,
                       response |-> "None",
                       original |-> call.ret,
                       escalated |-> FALSE,
                       outcome |-> call.outcome,
                       ret |-> call.ret]
    /\ UNCHANGED <<graphVars, hookVars, storeVars, writerVars, artifactVars, linkVars>>

\* The caller takes the result of the call and goes on.
Resume ==
    /\ Running
    /\ last.op # "none"
    /\ last' = NoCall
    /\ UNCHANGED <<graphVars, trace, supervisorVars, hookVars, storeVars, writerVars, artifactVars, linkVars>>

Next ==
    \/ \E i \in 1..MaxClaims : AddClaim(i)
    \/ \E j \in 1..MaxEvidence : AddEvidence(j)
    \/ \E i \in 1..MaxClaims, j \in 1..MaxLinked : LinkSupport(i, j)
    \/ /\ Idle
       /\ \E shape \in WindowShapes, arts \in ArtifactSeqs, ok \in BOOLEAN :
              \E fs \in FileViews(arts) : AnalyzeStep(Window(shape, arts), fs, ok)
    \/ Resume

Spec == Init /\ [][Next]_vars

(***************************************************************************)
(* The run driven through SupervisorHook: the agent appends its events to  *)
(* the trace store and the event loop calls on_step.                       *)
(***************************************************************************)
InitHook ==
    /\ claims = <<>>
    /\ evidence = <<>>
    /\ edges = <<>>
    /\ trace = <<>>
    /\ tool_call_count = 0
    /\ interventions_issued = <<>>
    /\ hook_interventions = <<>>
    /\ handler_set \in BOOLEAN
    /\ packets_set \in BOOLEAN
    /\ packet_files = 0
    /\ last = NoCall
    /\ file = <<>>
    /\ appended = <<>>
    /\ platform = "linux"
    /\ stores = [st \in Stores |-> NewStore]
    /\ flock = "none"
    /\ writers = [w \in Writers |-> IdleWriter]
    /\ artifacts = {}
    /\ run = NoRun
    /\ linkers = [c \in Callers |-> IdleCaller]
    /\ locking = FALSE
    /\ lock = "none"
    /\ request = NoRequest
    /\ agent = NoAgent

AgentEvents == {ToolCallEvent, ArtifactEvent("prd.md")}

AgentTypes == {"tool_call", "observation", "artifact"}

CountAgentEvents(log) == Cardinality({i \in 1..Len(log) : log[i].type \in AgentTypes})

\* The agent appends an event of its own to the trace store.
AgentAppend(event) ==
    /\ Building
    /\ CountAgentEvents(trace) < MaxAgentEvents
    /\ trace' = JsonlAppend(trace, event, TRUE)
    /\ UNCHANGED <<graphVars, supervisorVars, hookVars, last, storeVars, writerVars, artifactVars, linkVars>>

\* The paths the artifact events of a window name.
PathsIn(events) ==
    {events[i].payload.path : i \in {k \in 1..Len(events) : events[k].type = "artifact"}}

FilesFor(events) ==
    {fs \in [Paths -> FileStates] : \A p \in Paths \ PathsIn(events) : fs[p] = "missing"}

\* SupervisorHook.on_step(recent_events, window_size), followed while the
\* supervisor has counted no more than bound tool calls.
OnStepWithin(bound, events, fs, response, fail) ==
    /\ Idle
    /\ tool_call_count + CountToolCalls(events) <= bound
    /\ \E call \in {on_step(tool_call_count, interventions_issued, trace,
                        hook_interventions, packet_files, claims, evidence, edges,
                        fs, events, handler_set, packets_set, response, fail)} :
           /\ tool_call_count' = call.count
           /\ interventions_issued' = call.issued
           /\ trace' = call.log
           /\ hook_interventions' = call.hook_ivs
           /\ packet_files' = call.packet_files
           /\ last' = [op |-> "on_step",
                       tool_calls |-> CountType(events, "tool_call"),
                       uncovered |-> uncovered_claims(claims, edges, "HIGH"),
                       boundaries |-> detect_boundaries(events, claims, edges, fs).boundaries,
                       count_before |-> tool_call_count,
                       total_evidence |-> Len(evidence),
                       issued_before |-> interventions_issued,
                       trace_before |-> trace,
                       hook_before |-> hook_interventions,
                       packets_before |-> packet_files,
                       response |-> response,
                       original |-> call.original,
                       escalated |-> call.escalated,
                       outcome |-> call.outcome,
                       ret |-> call.ret]
    /\ UNCHANGED <<graphVars, handler_set, packets_set, storeVars, writerVars, artifactVars, linkVars>>

OnStep(events, fs, response, fail) ==
    OnStepWithin(MaxHookToolCalls, events, fs, response, fail)

\* on_step() with recent_events left out: the last window_size trace events.
OnStepDefault(window_size, fs, response, fail) ==
    OnStep(RecentEvents(trace, window_size), fs, response, fail)

\* on_step(recent_events): the events the event loop hands over.
OnStepGiven(events, fs, response, fail) ==
    OnStep(events, fs, response, fail)

HookWindows ==
    {Window(<<0, 0>>, <<>>), Window(<<1, 1>>, <<>>), Window(<<0, 0>>, <<"prd.md">>)}

WindowSizes == {1, DefaultWindowSize}

\* The handler answers only when there is one.
ResponsesOf(handler) == IF handler THEN Responses ELSE {"None"}

\* The appends of one on_step call: the intervention, and with packets
\* configured the escalation_packet and the decision.
FailPoints(configured) == 0..(IF configured THEN 3 ELSE 1)

NextHook ==
    \/ \E i \in 1..MaxClaims : AddClaim(i)
    \/ \E j \in 1..MaxLinked : AddEvidence(j)
    \/ \E i \in 1..MaxLinked, j \in 1..MaxLinked : LinkSupport(i, j)
    \/ \E event \in AgentEvents : AgentAppend(event)
    \/ /\ Idle
       /\ \E window_size \in WindowSizes, response \in ResponsesOf(handler_set),
                 fail \in FailPoints(packets_set) :
              \E fs \in FilesFor(RecentEvents(trace, window_size)) :
                  OnStepDefault(window_size, fs, response, fail)
    \/ /\ Idle
       /\ \E events \in HookWindows, response \in ResponsesOf(handler_set),
                 fail \in FailPoints(packets_set) :
              \E fs \in FilesFor(events) : OnStepGiven(events, fs, response, fail)
    \/ Resume

SpecHook == InitHook /\ [][NextHook]_vars

(***************************************************************************)
(* The evidence graph and the binder driven call by call: claims of any    *)
(* severity are added and added again, evidence is added, links are tried  *)
(* for known and unknown ids, observations reach the trace and             *)
(* SupervisorHook._bind_evidence runs with the pool it is given.           *)
(***************************************************************************)
Severities == {"HIGH", "MEDIUM", "LOW"}

SectionOf(severity) ==
    CASE severity = "HIGH" -> "Goals"
      [] severity = "MEDIUM" -> "Risks"
      [] OTHER -> "Non-goals"

\* The severities claim number i has in the versions of the artifact.
SeveritiesOf(i) ==
    CASE i = 1 -> {"HIGH", "LOW"}
      [] i = 2 -> {"HIGH", "MEDIUM"}
      [] OTHER -> {"MEDIUM", "LOW"}

\* Claim number i of the artifact, in a version of the given severity.
GraphClaim(i, severity) ==
    Claim(ClaimId(i), ExtractedClaim(i).text, SectionOf(severity), severity)

Issue42 == Issue(42, TextSlowLogin, "")
Issue43 == Issue(43, TextLatencyAgain, TextLatency)
Issue44 == Issue(44, "", TextSlowLogin)
Issue45 == Issue(45, TextWindow, "")
Issue46 == Issue(46, "", "")

IssuesBundle == Bundle(<<Issue42, Issue43>>, NoMilestone, <<>>)

Bundles ==
    {EmptyBundle,
     IssuesBundle,
     Bundle(<<Issue42, Issue44>>, Milestone(7, TextLong), <<>>),
     Bundle(<<Issue45, Issue46>>, NoMilestone, <<>>),
     Bundle(<<Issue45>>, Milestone(7, TextMaintenance), <<>>)}

\* The evidence source and the bundle of the hook at a binding pass.
HookPools ==
    {<<NoEvidenceSource, bundle>> : bundle \in Bundles}
        \cup {<<EvidenceSource(<<>>), IssuesBundle>>,
              <<EvidenceSource(<<Source(TextLatencyAgain, "doc:1", "document")>>),
                EmptyBundle>>}

ObservationResults ==
    {[dict |-> TRUE, title |-> TextWindow, body |-> TextMaintenance],
     [dict |-> TRUE, title |-> TextSlowLogin],
     [dict |-> TRUE, status |-> "ok"],
     [dict |-> FALSE]}

ObservationWith(result) ==
    new_event("observation", [tool |-> "github_fetch_issue", result |-> result])

CountObservations(log) == CountType(log, "observation")

GraphCall(op, args, ret) ==
    [op |-> op, args |-> args, before |-> Graph(claims, evidence, edges),
     outcome |-> "returned", ret |-> ret]

\* EvidenceGraph.add_claim, also for an id the graph has.
CallAddClaim(i, severity) ==
    /\ Idle
    /\ claims' = add_claim(claims, GraphClaim(i, severity))
    /\ last' = GraphCall("add_claim", <<GraphClaim(i, severity)>>, None)
    /\ UNCHANGED <<evidence, edges, trace, supervisorVars, hookVars, storeVars, writerVars, artifactVars, linkVars>>

\* EvidenceGraph.add_evidence
CallAddEvidence(j) ==
    /\ Idle
    /\ evidence' = add_evidence(evidence,
                       Evidence(EvidenceId(j), TextSlowLogin, "issue:42", "issue"))
    /\ Len(evidence') <= MaxGraphEvidence
    /\ last' = GraphCall("add_evidence", <<EvidenceId(j)>>, None)
    /\ UNCHANGED <<claims, edges, trace, supervisorVars, hookVars, storeVars, writerVars, artifactVars, linkVars>>

\* EvidenceGraph.link_support, for ids the graph has or has not.
CallLinkSupport(i, j) ==
    /\ Idle
    /\ edges' = link_support(claims, evidence, edges, ClaimId(i), EvidenceId(j))
    /\ Len(edges') <= MaxGraphEdges
    /\ last' = GraphCall("link_support", <<ClaimId(i), EvidenceId(j)>>, None)
    /\ UNCHANGED <<claims, evidence, trace, supervisorVars, hookVars, storeVars, writerVars, artifactVars, linkVars>>

\* EvidenceGraph.uncovered_claims
CallUncoveredClaims(min_severity) ==
    /\ Idle
    /\ last' = GraphCall("uncovered_claims", <<min_severity>>,
                   uncovered_claims(claims, edges, min_severity))
    /\ UNCHANGED <<graphVars, trace, supervisorVars, hookVars, storeVars, writerVars, artifactVars, linkVars>>

\* The agent's observation of a tool result reaches the trace.
AppendObservation(result) ==
    /\ Idle
    /\ CountObservations(trace) < MaxObservations
    /\ trace' = JsonlAppend(trace, ObservationWith(result), TRUE)
    /\ UNCHANGED <<graphVars, supervisorVars, hookVars, last, storeVars, writerVars, artifactVars, linkVars>>

\* SupervisorHook._bind_evidence (on_artifact_created, bind_evidence_now);
\* last.bound is the list bind_evidence returned to it.
BindEvidence(evidence_source, bundle) ==
    /\ Idle
    /\ \E bound \in {hook_bind_evidence(Graph(claims, evidence, edges), trace,
                         evidence_source, bundle)} :
           /\ Len(bound.graph.evidence) <= MaxGraphEvidence
           /\ Len(bound.graph.edges) <= MaxGraphEdges
           /\ evidence' = bound.graph.evidence
           /\ edges' = bound.graph.edges
           /\ last' = [bound |-> bound.evidence_list]
                          @@ GraphCall("bind_evidence", <<evidence_source, bundle>>, None)
    /\ UNCHANGED <<claims, trace, supervisorVars, hookVars, storeVars, writerVars, artifactVars, linkVars>>

NextGraph ==
    \/ \E i \in 1..MaxGraphClaims : \E severity \in SeveritiesOf(i) :
           CallAddClaim(i, severity)
    \/ \E j \in 1..MaxGraphEvidence : CallAddEvidence(j)
    \/ \E i \in 1..MaxGraphClaims, j \in 1..MaxGraphEvidence : CallLinkSupport(i, j)
    \/ \E min_severity \in Severities : CallUncoveredClaims(min_severity)
    \/ \E result \in ObservationResults : AppendObservation(result)
    \/ /\ Idle
       /\ \E pool \in HookPools : BindEvidence(pool[1], pool[2])
    \/ Resume

SpecGraph == Init /\ [][NextGraph]_vars

(***************************************************************************)
(* The trace store used by one writer: events are appended, an append may  *)
(* raise, and the file is read back with iter_events.  The file may hold   *)
(* lines of an earlier run, damaged ones among them.                       *)
(***************************************************************************)
GoodLine == json_dumps(model_dump(ObservationEvent))

\* Objects that are no events: no payload, no type, a type that is none.
NoPayloadLine == json_dumps([type |-> "tool_call"])
NoTypeLine == json_dumps([payload |-> [tool |-> "github_fetch_issue"]])
UnknownTypeLine == json_dumps([type |-> "heartbeat", payload |-> [tool |-> "none"]])

\* An event written with a key that Event does not have.
ExtraKeyLine ==
    json_dumps([type |-> "decision", payload |-> [choice |-> "proceed"], run |-> "r1"])

FileLines ==
    {GoodLine, ExtraKeyLine, BlankLine, TruncatedLine, ArrayLine, NumberLine,
     NullLine, NoPayloadLine, NoTypeLine, UnknownTypeLine}

InitialFiles ==
    UNION {[1..n -> FileLines] : n \in 0..MaxInitialLines}

StoreEvents == {ToolCallEvent, ArtifactEvent("prd.md")}

InitStore ==
    /\ claims = <<>>
    /\ evidence = <<>>
    /\ edges = <<>>
    /\ trace = <<>>
    /\ tool_call_count = 0
    /\ interventions_issued = <<>>
    /\ hook_interventions = <<>>
    /\ handler_set = FALSE
    /\ packets_set = FALSE
    /\ packet_files = 0
    /\ last = NoCall
    /\ file \in InitialFiles
    /\ appended = <<>>
    /\ platform = "linux"
    /\ stores = [st \in Stores |-> NewStore]
    /\ flock = "none"
    /\ writers = [w \in Writers |-> IdleWriter]
    /\ artifacts = {}
    /\ run = NoRun
    /\ linkers = [c \in Callers |-> IdleCaller]
    /\ locking = FALSE
    /\ lock = "none"
    /\ request = NoRequest
    /\ agent = NoAgent

StoreCall(op, args, outcome, ret) ==
    [op |-> op, args |-> args, before |-> file, outcome |-> outcome, ret |-> ret]

\* JsonlTraceStore.append
StoreAppend(event, ok) ==
    /\ Idle
    /\ Len(appended) < MaxAppends
    /\ file' = JsonlAppend(file, json_dumps(model_dump(event)), ok)
    /\ appended' = IF ok THEN Append(appended, event) ELSE appended
    /\ last' = StoreCall("append", <<event>>, IF ok THEN "returned" ELSE "raised", None)
    /\ UNCHANGED <<graphVars, trace, supervisorVars, hookVars, writerVars, artifactVars, linkVars>>

\* list(store.iter_events()), load_events(path)
StoreIterEvents ==
    /\ Idle
    /\ \E read \in {iter_events(file)} :
           last' = StoreCall("iter_events", <<>>, read.outcome, read.events)
    /\ UNCHANGED <<graphVars, trace, supervisorVars, hookVars, storeVars, writerVars, artifactVars, linkVars>>

NextStore ==
    \/ \E event \in StoreEvents, ok \in BOOLEAN : StoreAppend(event, ok)
    \/ StoreIterEvents
    \/ Resume

SpecStore == InitStore /\ [][NextStore]_vars

(***************************************************************************)
(* Concurrent writers of one trace file.  A writer goes through append     *)
(* step by step: _acquire_lock, write, flush, _release_lock.  flock locks  *)
(* belong to the open file description, so a store that holds the lock is  *)
(* not kept waiting by it.                                                 *)
(***************************************************************************)
Platforms == {"linux", "win32"}

InitWriters ==
    /\ claims = <<>>
    /\ evidence = <<>>
    /\ edges = <<>>
    /\ trace = <<>>
    /\ tool_call_count = 0
    /\ interventions_issued = <<>>
    /\ hook_interventions = <<>>
    /\ handler_set = FALSE
    /\ packets_set = FALSE
    /\ packet_files = 0
    /\ last = NoCall
    /\ file = <<>>
    /\ appended = <<>>
    /\ platform \in Platforms
    /\ stores = [st \in Stores |-> NewStore]
    /\ flock = "none"
    /\ writers = [w \in Writers |-> IdleWriter]
    /\ artifacts = {}
    /\ run = NoRun
    /\ linkers = [c \in Callers |-> IdleCaller]
    /\ locking = FALSE
    /\ lock = "none"
    /\ request = NoRequest
    /\ agent = NoAgent

otherVars == <<graphVars, trace, supervisorVars, hookVars, last, appended, artifactVars, linkVars>>

\* _acquire_lock: on win32 nothing; else the file is opened if it is not
\* and flock(LOCK_EX) waits while another file description holds the lock.
AcquireLock(w) ==
    /\ writers[w].pc = "idle"
    /\ writers[w].done < MaxWrites
    /\ platform # "win32" => flock \in {"none", StoreOf(w)}
    /\ stores' = IF platform = "win32" THEN stores
                 ELSE [stores EXCEPT ![StoreOf(w)].opened = TRUE,
                                     ![StoreOf(w)].lock_acquired = TRUE]
    /\ flock' = IF platform = "win32" THEN flock ELSE StoreOf(w)
    /\ writers' = [writers EXCEPT ![w].pc = "write"]
    /\ UNCHANGED <<otherVars, file, platform>>

\* self._file.write(line + "\n"): the text goes to the buffer of the file object.
Write(w) ==
    /\ writers[w].pc = "write"
    /\ stores' = [stores EXCEPT
                     ![StoreOf(w)].opened = TRUE,
                     ![StoreOf(w)].buffer = Append(@, Piece(w, writers[w].done + 1, "whole"))]
    /\ writers' = [writers EXCEPT ![w].pc = "flush"]
    /\ UNCHANGED <<otherVars, file, platform, flock>>

\* self._file.flush(): the buffer goes to the end of the file.
Flush(w) ==
    /\ writers[w].pc = "flush"
    /\ file' = file \o stores[StoreOf(w)].buffer
    /\ stores' = [stores EXCEPT ![StoreOf(w)].buffer = <<>>]
    /\ writers' = [writers EXCEPT ![w].pc = "release"]
    /\ UNCHANGED <<otherVars, platform, flock>>

\* A write(2) of the flush that takes only the first part of a line; the
\* flush goes on with the rest.
FlushPart(w) ==
    /\ writers[w].pc = "flush"
    /\ stores[StoreOf(w)].buffer # <<>>
    /\ Head(stores[StoreOf(w)].buffer).part = "whole"
    /\ file' = Append(file, [Head(stores[StoreOf(w)].buffer) EXCEPT !.part = "head"])
    /\ stores' = [stores EXCEPT ![StoreOf(w)].buffer[1].part = "tail"]
    /\ UNCHANGED <<otherVars, platform, flock, writers>>

\* _release_lock: flock(LOCK_UN) if the store's _lock_acquired is set.
ReleaseLock(w) ==
    /\ writers[w].pc = "release"
    /\ flock' = IF platform # "win32" /\ stores[StoreOf(w)].lock_acquired
                     /\ flock = StoreOf(w)
                THEN "none" ELSE flock
    /\ stores' = IF platform # "win32"
                 THEN [stores EXCEPT ![StoreOf(w)].lock_acquired = FALSE]
                 ELSE stores
    /\ writers' = [writers EXCEPT ![w].pc = "idle", ![w].done = @ + 1]
    /\ UNCHANGED <<otherVars, file, platform>>

NextWriters ==
    \/ \E w \in Writers : AcquireLock(w)
    \/ \E w \in Writers : Write(w)
    \/ \E w \in Writers : Flush(w)
    \/ \E w \in Writers : FlushPart(w)
    \/ \E w \in Writers : ReleaseLock(w)

SpecWriters == InitWriters /\ [][NextWriters]_vars

(***************************************************************************)
(* The claim extractor called on its own: any path, and at that path       *)
(* nothing, something unreadable, or any document of at most MaxDocLines   *)
(* lines.                                                                  *)
(***************************************************************************)
ExtractPaths == {"docs/prd.md", "docs/plan.md"}

Documents == UNION {[1..n -> SampleLines] : n \in 0..MaxDocLines}

FilesFound == {FileMissing, FileUnreadable} \cup {FileWith(lines) : lines \in Documents}

InitExtract == Init

\* extract_claims_from_artifact(artifact_path)
CallExtract(artifact_path, found) ==
    /\ Idle
    /\ \E call \in {extract_claims_from_artifact(artifact_path, found)} :
           last' = [op |-> "extract_claims_from_artifact",
                    artifact_path |-> artifact_path, found |-> found,
                    outcome |-> call.outcome, ret |-> call.claims]
    /\ UNCHANGED <<graphVars, trace, supervisorVars, hookVars, storeVars, writerVars, artifactVars, linkVars>>

NextExtract ==
    \/ /\ Idle
       /\ \E artifact_path \in ExtractPaths, found \in FilesFound : CallExtract(artifact_path, found)
    \/ Resume

SpecExtract == InitExtract /\ [][NextExtract]_vars

(***************************************************************************)
(* A SupervisorHook (built with a bundle and no evidence source, handler   *)
(* or packets directory) that is told of artifacts: on_artifact_created    *)
(* for any path with the file as it is then, bind_evidence_now and         *)
(* on_step in any order.                                                   *)
(***************************************************************************)
ArtifactPaths == {"docs/prd.md", "drafts/prd.md", "docs/plan.md"}

\* artifact_name: left out ("", taken by "or" as None is) or given.
ArtifactNames == {"", "requirements"}

DocGoals == <<LineGoals, LineLatency>>
DocRisks == <<LineRisks, LineTwoSentences>>
DocNonGoals == <<LineNonGoals, LineLatency>>

ArtifactFiles == {FileMissing, FileUnreadable, FileWith(DocGoals), FileWith(DocRisks), FileWith(DocNonGoals)}

InitArtifacts == Init

RECURSIVE AddClaims(_, _)
AddClaims(cs, found) ==
    IF found = <<>> THEN cs ELSE AddClaims(add_claim(cs, Head(found)), Tail(found))

\* SupervisorHook.on_artifact_created(artifact_path, artifact_name)
OnArtifactCreated(artifact_path, artifact_name, found) ==
    /\ Idle
    /\ \E name \in {IF artifact_name # "" THEN artifact_name ELSE path_stem(artifact_path)},
          call \in {extract_claims_from_artifact(artifact_path, found)} :
         \E bound \in {IF call.outcome = "raised"
                       THEN [graph |-> Graph(claims, evidence, edges), evidence_list |-> <<>>]
                       ELSE hook_bind_evidence(Graph(AddClaims(claims, call.claims), evidence, edges),
                                trace, NoEvidenceSource, IssuesBundle)} :
           /\ artifacts' = {a \in artifacts : a[1] # name} \cup {<<name, artifact_path>>}
           /\ claims' = bound.graph.claims
           /\ evidence' = bound.graph.evidence
           /\ edges' = bound.graph.edges
           /\ last' = [op |-> "on_artifact_created", artifact_path |-> artifact_path,
                       found |-> found, extracted |-> call.claims,
                       before |-> Graph(claims, evidence, edges),
                       outcome |-> call.outcome, ret |-> None]
    /\ UNCHANGED <<trace, supervisorVars, hookVars, storeVars, writerVars, run, linkVars>>

\* SupervisorHook.bind_evidence_now()
BindEvidenceNow == BindEvidence(NoEvidenceSource, IssuesBundle)

NoFiles == [p \in Paths |-> "missing"]

\* The observation of a tool result the agent adds to the trace: an issue
\* about the rollback, which no issue of the bundle speaks of.
RollbackObservation == ObservationWith([dict |-> TRUE, title |-> TextWindow, body |-> TextMaintenance])

NextArtifacts ==
    \/ /\ Idle
       /\ \E artifact_path \in ArtifactPaths, artifact_name \in ArtifactNames, found \in ArtifactFiles :
              OnArtifactCreated(artifact_path, artifact_name, found)
    \/ BindEvidenceNow
    \/ AgentAppend(RollbackObservation)
    \/ OnStepDefault(DefaultWindowSize, NoFiles, "None", 0)
    \/ Resume

SpecArtifacts == InitArtifacts /\ [][NextArtifacts]_vars

(***************************************************************************)
(* One run of run_agent_with_supervisor (agent/loop.py), called as cmd_run *)
(* calls it: with a Supervisor built on a new EvidenceGraph, which is the  *)
(* graph of the variables claims, evidence and edges.  The function is     *)
(* followed through its positions: start, agent, extraction and binding,   *)
(* analysis, report.  What the agent leaves in its artifacts directory     *)
(* and the bundle that fetch returns are inputs.                           *)
(***************************************************************************)
\* A file of the artifacts directory, as the extractor and as the detector
\* find it, and whether the agent wrote it with write_file.
RunAbsent == [found |-> FileMissing, state |-> "missing", written |-> FALSE]
RunGoals == [found |-> FileWith(DocGoals), state |-> "goals", written |-> TRUE]
RunRisks == [found |-> FileWith(DocRisks), state |-> "risks", written |-> TRUE]
RunEmptyMetrics == [found |-> FileWith(<<LineGoals, LineLatency, LineMetrics, LineToDo>>), state |-> "empty_metrics", written |-> TRUE]
\* a directory with a name that ends in .md
RunDirectory == [found |-> FileUnreadable, state |-> "unreadable", written |-> FALSE]

RunFiles ==
    {files \in [Paths -> {RunAbsent, RunGoals, RunRisks, RunEmptyMetrics, RunDirectory}] :
        /\ files["prd.md"] # RunRisks
        /\ files["plan.md"] \in {RunAbsent, RunRisks}}

RunBundles == {EmptyBundle, IssuesBundle}

RunStartEvent == new_event("decision", [type |-> "run_start", run_id |-> RunId])
AgentErrorEvent == new_event("observation", [type |-> "agent_error"])
EscalationEvent(count) == new_event("decision", [type |-> "escalation", run_id |-> RunId, intervention_count |-> count])

RECURSIVE AppendAll(_, _)
AppendAll(log, events) ==
    IF events = <<>> THEN log ELSE AppendAll(JsonlAppend(log, Head(events), TRUE), Tail(events))

\* The paths of the artifacts dict, in the order of its values.
ArtifactOrder == <<"prd.md", "plan.md">>
Globbed(files) == SelectSeq(ArtifactOrder, LAMBDA p : files[p].found.exists)
Written(files) == SelectSeq(ArtifactOrder, LAMBDA p : files[p].written)

\* loop.py 48-78: the run_start event, the fetch of the bundle with its
\* tool_call and observation events, the graph of the run.
RunStart(bundle) ==
    /\ run.pc = "none"
    /\ trace' = AppendAll(trace, <<RunStartEvent, ToolCallEvent, ObservationEvent>>)
    /\ run' = [pc |-> "agent", bundle |-> bundle, graph |-> Graph(<<>>, <<>>, <<>>)]
    /\ UNCHANGED <<graphVars, supervisorVars, hookVars, last, storeVars, writerVars, artifacts, linkVars>>

\* loop.py 86-94: agent.run() appends its events and returns the *.md
\* entries of the artifacts directory.
RunAgent(files, shape) ==
    /\ run.pc = "agent"
    /\ trace' = AppendAll(trace, Window(shape, Written(files)))
    /\ run' = [run EXCEPT !.pc = "extract"] @@ [files |-> files]
    /\ UNCHANGED <<graphVars, supervisorVars, hookVars, last, storeVars, writerVars, artifacts, linkVars>>

\* loop.py 97-100 for the artifacts from position k on
RECURSIVE ExtractAll(_, _, _, _)
ExtractAll(files, order, k, cs) ==
    IF k > Len(order) THEN [outcome |-> "returned", claims |-> cs]
    ELSE LET call == extract_claims_from_artifact(order[k], files[order[k]].found)
         IN  IF call.outcome = "raised" THEN [outcome |-> "raised", claims |-> cs]
             ELSE ExtractAll(files, order, k + 1, AddClaims(cs, call.claims))

\* loop.py 97-103: the claims of every artifact go to the graph of the run
\* and are bound; an exception is logged and leaves the function (134-145).
RunExtract ==
    /\ run.pc = "extract"
    /\ \E call \in {ExtractAll(run.files, Globbed(run.files), 1, run.graph.claims)} :
         IF call.outcome = "raised"
         THEN /\ trace' = JsonlAppend(trace, AgentErrorEvent, TRUE)
              /\ run' = [run EXCEPT !.pc = "failed", !.graph.claims = call.claims]
         ELSE /\ trace' = trace
              /\ run' = [run EXCEPT !.pc = "analyze",
                             !.graph = bind_evidence(call.claims, trace, run.bundle,
                                           Graph(call.claims, run.graph.evidence, run.graph.edges)).graph]
    /\ UNCHANGED <<graphVars, supervisorVars, hookVars, last, storeVars, writerVars, artifacts, linkVars>>

\* loop.py 105-132: supervisor.analyze_step on the last 20 events; on an
\* escalation the packet is generated from the graph of the run.
RunAnalyze ==
    /\ run.pc = "analyze"
    /\ \E call \in {analyze_step(tool_call_count, interventions_issued, trace,
                        claims, evidence, edges, [p \in Paths |-> run.files[p].state],
                        RecentEvents(trace, DefaultWindowSize), TRUE)} :
         \E packet \in {generate_packet(call.log, packet_files, <<call.ret>>,
                            run.graph.claims, run.graph.edges, TRUE)} :
           /\ tool_call_count' = call.count
           /\ interventions_issued' = call.issued
           /\ IF call.outcome = "raised"
              THEN /\ trace' = JsonlAppend(call.log, AgentErrorEvent, TRUE)
                   /\ packet_files' = packet_files
                   /\ run' = [run EXCEPT !.pc = "failed"]
              ELSE IF call.ret # None /\ call.ret.type = "ESCALATE"
              THEN /\ trace' = JsonlAppend(packet.log, EscalationEvent(1), TRUE)
                   /\ packet_files' = packet.packet_files
                   /\ run' = [run EXCEPT !.pc = "report"] @@ [interventions |-> <<call.ret>>]
              ELSE /\ trace' = call.log
                   /\ packet_files' = packet_files
                   /\ run' = [run EXCEPT !.pc = "report"]
                                 @@ [interventions |-> IF call.ret = None THEN <<>> ELSE <<call.ret>>]
    /\ UNCHANGED <<graphVars, hook_interventions, handler_set, packets_set, last, storeVars, writerVars, artifacts, linkVars>>

\* loop.py 147-161: the report is rendered from the graph of the run and
\* the summary counts its uncovered HIGH claims.
RunReport ==
    /\ run.pc = "report"
    /\ run' = [run EXCEPT !.pc = "done"]
                  @@ [uncovered_claims |-> Len(uncovered_claims(run.graph.claims, run.graph.edges, "HIGH")),
                      intervention_count |-> Len(run.interventions),
                      event_count |-> Len(trace)]
    /\ UNCHANGED <<graphVars, trace, supervisorVars, hookVars, last, storeVars, writerVars, artifacts, linkVars>>

InitRun == Init

NextRun ==
    \/ \E bundle \in RunBundles : RunStart(bundle)
    \/ /\ run.pc = "agent"
       /\ \E files \in RunFiles, shape \in WindowShapes : RunAgent(files, shape)
    \/ RunExtract
    \/ RunAnalyze
    \/ RunReport

SpecRun == InitRun /\ [][NextRun]_vars

(***************************************************************************)
(* The boundary detector called on its own: on a graph of up to            *)
(* MaxDetectClaims claims with or without a supports edge, with windows    *)
(* of tool calls and observations around the 20-call and 30% limits, and   *)
(* with windows of artifact events whose files hold any of the documents.  *)
(***************************************************************************)
DetectStates ==
    {"missing", "empty_metrics", "scope_in_out", "goals", "metrics_tbd", "metrics_in_header",
     "empty_then_measured", "measured_then_empty", "metrics_subsection"}

DetectCalls == {0, LowRateToolCalls, LowRateToolCalls + 1, 30}
DetectObservations == {0, 6, 7, 9}

RateWindows == {Window(<<calls, observations>>, <<>>) : calls \in DetectCalls, observations \in DetectObservations}

ArtifactWindows == {Window(<<0, 0>>, arts) : arts \in UNION {[1..n -> Paths] : n \in 1..MaxArtifactEvents}}

\* The files as the call finds them; a file no event names is left out.
DetectFiles(events) ==
    {fs \in [Paths -> DetectStates \cup {"unreadable"}] :
        /\ \A p \in Paths \ PathsIn(events) : fs[p] = "missing"
        /\ fs["plan.md"] \in {"missing", "unreadable", "metrics_tbd", "measured_then_empty"}}

InitDetect == Init

\* detect_boundaries(trace_events, graph, current_artifacts); again says
\* that the call before had the same arguments, graph and files, and
\* earlier is what that call returned.
CallDetect(events, fs, again) ==
    /\ \E call \in {detect_boundaries(events, claims, edges, fs)} :
           last' = [op |-> "detect_boundaries", events |-> events, fs |-> fs,
                    before |-> Graph(claims, evidence, edges), trace_before |-> trace,
                    again |-> again,
                    earlier |-> IF again THEN last.ret ELSE <<>>,
                    outcome |-> IF call.raised THEN "raised" ELSE "returned",
                    ret |-> call.boundaries]
    /\ UNCHANGED <<graphVars, trace, supervisorVars, hookVars, storeVars, writerVars, artifactVars, linkVars>>

\* The caller calls again with what it passed before.
DetectAgain ==
    /\ last.op = "detect_boundaries"
    /\ last.outcome = "returned"
    /\ ~last.again
    /\ CallDetect(last.events, last.fs, TRUE)

NextDetect ==
    \/ \E i \in 1..MaxDetectClaims : AddClaim(i)
    \/ AddEvidence(1)
    \/ \E i \in 1..MaxDetectClaims : LinkSupport(i, 1)
    \/ \E event \in {ToolCallEvent} : AgentAppend(event)
    \/ /\ Idle
       /\ \E events \in RateWindows \cup ArtifactWindows :
              \E fs \in DetectFiles(events) : CallDetect(events, fs, FALSE)
    \/ DetectAgain
    \/ Resume

SpecDetect == InitDetect /\ [][NextDetect]_vars

(***************************************************************************)
(* Two threads that call link_support on one EvidenceGraph, followed       *)
(* statement by statement: the id checks (graph.py 70-73), the scan of     *)
(* the edge list (76-82) and the append (84), between which the            *)
(* interpreter can switch threads.  The callers either call the graph      *)
(* directly or hold a lock of their own around each call.                  *)
(***************************************************************************)
\* The scan finds no edge, whatever the list holds.
EdgeNeverFound(es, claim_id, evidence_id) == FALSE

\* graph.py 76-82: a supports edge from evidence_id to claim_id is there.
edge_exists(es, claim_id, evidence_id) ==
    \E i \in 1..Len(es) :
        /\ es[i].type = "supports"
        /\ es[i].from_id = evidence_id
        /\ es[i].to_id = claim_id

InitLinkers ==
    /\ claims = <<>>
    /\ evidence = <<>>
    /\ edges = <<>>
    /\ trace = <<>>
    /\ tool_call_count = 0
    /\ interventions_issued = <<>>
    /\ hook_interventions = <<>>
    /\ handler_set = FALSE
    /\ packets_set = FALSE
    /\ packet_files = 0
    /\ last = NoCall
    /\ file = <<>>
    /\ appended = <<>>
    /\ platform = "linux"
    /\ stores = [st \in Stores |-> NewStore]
    /\ flock = "none"
    /\ writers = [w \in Writers |-> IdleWriter]
    /\ artifacts = {}
    /\ run = NoRun
    /\ linkers = [c \in Callers |-> IdleCaller]
    /\ locking \in BOOLEAN
    /\ lock = "none"
    /\ request = NoRequest
    /\ agent = NoAgent

linkFrame == <<claims, evidence, trace, supervisorVars, hookVars, last, storeVars, writerVars, artifactVars, locking, agentVars>>

\* The caller returns from link_support and gives up its lock.
Leave(c) ==
    /\ linkers' = [linkers EXCEPT ![c] = IdleCaller]
    /\ lock' = IF lock = c THEN "none" ELSE lock

\* A thread calls link_support(claim_id, evidence_id), after taking the
\* lock when the callers use one.
LinkEnter(c, claim_id, evidence_id) ==
    /\ linkers[c].pc = "idle"
    /\ locking => lock = "none"
    /\ lock' = IF locking THEN c ELSE lock
    /\ linkers' = [linkers EXCEPT ![c] = [pc |-> "ids", claim_id |-> claim_id, evidence_id |-> evidence_id]]
    /\ UNCHANGED <<linkFrame, edges>>

\* graph.py 70-73
LinkCheckIds(c) ==
    /\ linkers[c].pc = "ids"
    /\ IF linkers[c].claim_id \in Keys(claims) /\ linkers[c].evidence_id \in Keys(evidence)
       THEN linkers' = [linkers EXCEPT ![c].pc = "scan"] /\ lock' = lock
       ELSE Leave(c)
    /\ UNCHANGED <<linkFrame, edges>>

\* graph.py 76-82
LinkScan(c) ==
    /\ linkers[c].pc = "scan"
    /\ IF edge_exists(edges, linkers[c].claim_id, linkers[c].evidence_id)
       THEN Leave(c)
       ELSE linkers' = [linkers EXCEPT ![c].pc = "append"] /\ lock' = lock
    /\ UNCHANGED <<linkFrame, edges>>

\* graph.py 84
LinkAppend(c) ==
    /\ linkers[c].pc = "append"
    /\ edges' = Append(edges, Edge("supports", linkers[c].evidence_id, linkers[c].claim_id))
    /\ Leave(c)
    /\ UNCHANGED linkFrame

\* The graph is filled by a thread that is in no link_support call.
LinkAddClaim(i) ==
    /\ AddClaim(i)
    /\ UNCHANGED linkVars

LinkAddEvidence(j) ==
    /\ AddEvidence(j)
    /\ UNCHANGED linkVars

NextLinkers ==
    \/ \E i \in 1..MaxLinked : LinkAddClaim(i)
    \/ \E j \in 1..(MaxLinked + 1) : LinkAddEvidence(j)
    \/ \E c \in Callers, i \in 1..MaxLinked, j \in 1..(MaxLinked + 1) :
           LinkEnter(c, ClaimId(i), EvidenceId(j))
    \/ \E c \in Callers : LinkCheckIds(c)
    \/ \E c \in Callers : LinkScan(c)
    \/ \E c \in Callers : LinkAppend(c)

SpecLinkers == InitLinkers /\ [][NextLinkers]_vars

(***************************************************************************)
(* The hook called as the event loop of the README calls it: on_step()     *)
(* without arguments after the agent's steps, so that every call reads     *)
(* the last window_size events of the trace again.  The agent appends      *)
(* single events or the events of a whole run of tool calls.               *)
(***************************************************************************)
\* The tool calls and observations of one run of the agent between two
\* on_step calls.
AgentRuns == {<<20, 0>>, <<21, 0>>, <<21, 7>>}

AgentRun(shape) ==
    /\ Idle
    /\ CountType(trace, "tool_call") + shape[1] <= MaxTraceToolCalls
    /\ trace' = AppendAll(trace, Window(shape, <<>>))
    /\ UNCHANGED <<graphVars, supervisorVars, hookVars, last, storeVars, writerVars, artifactVars, linkVars>>

\* on_step() with both arguments left to their defaults
OnStepNoArguments(response, fail) ==
    OnStepWithin(MaxCounted, RecentEvents(trace, DefaultWindowSize), NoFiles, response, fail)

InitWindow == InitHook

NextWindow ==
    \/ \E event \in {ToolCallEvent, ObservationEvent} : AgentAppend(event)
    \/ \E shape \in AgentRuns : AgentRun(shape)
    \/ /\ Idle
       /\ \E response \in ResponsesOf(handler_set), fail \in 0..1 :
              OnStepNoArguments(response, fail)
    \/ Resume

SpecWindow == InitWindow /\ [][NextWindow]_vars

(***************************************************************************)
(* GitHubClient._request (github/client.py): the rate limit check, then up *)
(* to max_retries calls of session.request.  What the server answers to    *)
(* each call is an input: an exception of requests (connection error,      *)
(* timeout) or a response with a status and, on a 403, a Retry-After       *)
(* header or none.  Sleeps are recorded, not waited for.                   *)
(***************************************************************************)
MaxRetries == 3
DefaultRetryAfter == 60
LowRemaining == 10

Digits == "0123456789"

IsDigit(c) == \E d \in 1..10 : Char(Digits, d) = c

DigitValue(c) == CHOOSE d \in 0..9 : Char(Digits, d + 1) = c

RECURSIVE NatOf(_)
NatOf(text) ==
    IF text = "" THEN 0
    ELSE 10 * NatOf(SubSeq(text, 1, Len(text) - 1)) + DigitValue(Char(text, Len(text)))

\* Python's int(text) on a str: surrounding whitespace and one sign are
\* allowed, the rest must be digits; anything else is a ValueError.
ParseInt(text) ==
    LET body == strip(text)
        signed == body # "" /\ Char(body, 1) \in {"-", "+"}
        digits == IF signed THEN SubSeq(body, 2, Len(body)) ELSE body
    IN  IF digits = "" \/ \E i \in 1..Len(digits) : ~IsDigit(Char(digits, i))
        THEN [ok |-> FALSE, value |-> 0]
        ELSE [ok |-> TRUE,
              value |-> IF signed /\ Char(body, 1) = "-" THEN 0 - NatOf(digits) ELSE NatOf(digits)]

NoHeader == [present |-> FALSE, value |-> ""]
HeaderOf(value) == [present |-> TRUE, value |-> value]

\* What session.request does: raise an exception of requests, or return a
\* response.
Raises(name) == [kind |-> "exception", name |-> name, status |-> 0, retry_after |-> NoHeader]
Response(status, retry_after) == [kind |-> "response", name |-> "", status |-> status, retry_after |-> retry_after]

\* response.raise_for_status() raises HTTPError
IsHttpError(status) == 400 <= status /\ status < 600

\* int(response.headers.get("Retry-After", 60))
retry_after(response) ==
    IF response.retry_after.present THEN ParseInt(response.retry_after.value)
    ELSE [ok |-> TRUE, value |-> DefaultRetryAfter]

\* The exception an answer makes the try block see.
ExceptionOf(answer) ==
    IF answer.kind = "exception" THEN [name |-> answer.name, message |-> ""]
    ELSE [name |-> "HTTPError", message |-> ToString(answer.status)]

Raised(req, exception) == [req EXCEPT !.pc = "done", !.outcome = "raised", !.exception = exception]

\* client.py 58-62: the wait of a 403, before the continue.
WaitRetryAfter(req, answer) ==
    IF ~retry_after(answer).ok
    THEN Raised(req, [name |-> "ValueError", message |-> "invalid literal for int()"])
    ELSE IF retry_after(answer).value < 0
    THEN Raised(req, [name |-> "ValueError", message |-> "sleep length must be non-negative"])
    ELSE [req EXCEPT !.waits = Append(@, retry_after(answer).value)]

\* The loop goes to its next attempt, or ends and line 70 raises.
NextAttempt(req) ==
    IF req.pc = "done" THEN req
    ELSE IF req.attempt + 1 < MaxRetries THEN [req EXCEPT !.attempt = @ + 1]
    ELSE Raised(req, [name |-> "RequestException", message |-> "Failed after retries"])

\* One pass of the loop body (client.py 56-69) on the answer of
\* session.request.
request_attempt(req, answer) ==
    LET seen == [req EXCEPT !.answers = Append(@, answer)]
    IN  IF answer.kind = "response" /\ answer.status = 403
        THEN NextAttempt(WaitRetryAfter(seen, answer))
        ELSE IF answer.kind = "response" /\ ~IsHttpError(answer.status)
        THEN [seen EXCEPT !.pc = "done", !.outcome = "returned", !.ret = answer]
        ELSE IF req.attempt = MaxRetries - 1
        THEN Raised(seen, ExceptionOf(answer))
        ELSE [seen EXCEPT !.attempt = @ + 1, !.waits = Append(@, 2 ^ req.attempt)]

\* The answers of the rate limit endpoint: the GET raises, a status other
\* than 200, or 200 with the remaining calls and the seconds to the reset.
RateAnswer(kind, remaining, reset_in) == [kind |-> kind, remaining |-> remaining, reset_in |-> reset_in]

RateAnswers ==
    {RateAnswer("exception", 0, 0), RateAnswer("status_500", 0, 0),
     RateAnswer("status_200", 5000, 0), RateAnswer("status_200", 9, 30),
     RateAnswer("status_200", 9, 0 - 5)}

\* _check_rate_limit (client.py 27-37)
check_rate_limit(req, rate) ==
    LET sleep_time == IF rate.reset_in + 1 > 0 THEN rate.reset_in + 1 ELSE 0
    IN  IF rate.kind = "exception"
        THEN Raised(req, [name |-> "ConnectionError", message |-> "rate_limit"])
        ELSE IF rate.kind = "status_200" /\ rate.remaining < LowRemaining /\ sleep_time > 0
        THEN [req EXCEPT !.pc = "attempt", !.waits = Append(@, sleep_time)]
        ELSE [req EXCEPT !.pc = "attempt"]

RetryAfterValues == {"120", " 5 ", "Wed, 21 Oct 2015 07:28:00 GMT", "-1", ""}

Answers ==
    {Raises("ConnectionError"), Raises("Timeout")}
        \cup {Response(status, NoHeader) : status \in {200, 304, 403, 404, 500}}
        \cup {Response(403, HeaderOf(value)) : value \in RetryAfterValues}

requestFrame == <<graphVars, trace, supervisorVars, hookVars, last, storeVars, writerVars, artifactVars, linkers, locking, lock, agent>>

\* A caller (get_issues, get_issue, ...) calls _request.
RequestCall ==
    /\ request.pc = "none"
    /\ request' = [NoRequest EXCEPT !.pc = "rate_limit"]
    /\ UNCHANGED requestFrame

\* client.py 53
CheckRateLimit(rate) ==
    /\ request.pc = "rate_limit"
    /\ request' = check_rate_limit(request, rate)
    /\ UNCHANGED requestFrame

\* client.py 55-70: one attempt
RequestAttempt(answer) ==
    /\ request.pc = "attempt"
    /\ request' = request_attempt(request, answer)
    /\ UNCHANGED requestFrame

\* The caller has the response or the exception; the client is free for
\* the next call.
RequestEnd ==
    /\ request.pc = "done"
    /\ request' = NoRequest
    /\ UNCHANGED requestFrame

InitRequest == Init

NextRequest ==
    \/ RequestCall
    \/ \E rate \in RateAnswers : CheckRateLimit(rate)
    \/ \E answer \in Answers : RequestAttempt(answer)
    \/ RequestEnd

SpecRequest == InitRequest /\ [][NextRequest]_vars

\* The scheduler of the calling thread runs the call to its end.
FairRequest == SpecRequest /\ WF_vars(NextRequest)

(***************************************************************************)
(* PRDAgent.run (agent/prd_writer.py 153-364), step by step: the loop      *)
(* test, one pass up to the tool calls, the tool_call event of one tool    *)
(* call, and its execution with the observation event.  The answers of    *)
(* the LLM client, the behaviour of each tool and the success of each      *)
(* append to the trace store are inputs.                                   *)
(***************************************************************************)
\* max_iterations of the constructor (default 100, prd_writer.py 22).
MaxIterations == 2
\* tool calls in one message of the LLM
MaxToolCallsPerMessage == 2

\* The tool registry (prd_writer.py 47-53).
tools == {"github_fetch_issue", "github_fetch_comments", "read_file", "write_file", "search_issues"}

\* What the LLM asks for: a tool of the registry that returns, write_file
\* of a .md file, read_file of a path that cannot be read (the tool
\* raises), and a tool that is not in the registry.
ToolRequests ==
    { [tool |-> "github_fetch_issue", raises |-> FALSE],
      [tool |-> "write_file", raises |-> FALSE],
      [tool |-> "read_file", raises |-> TRUE],
      [tool |-> "delete_file", raises |-> FALSE] }

ToolRequestLists == UNION {[1..n -> ToolRequests] : n \in 0..MaxToolCallsPerMessage}

Contents == {"", "Done.", "The PRD is complete.", "Let me look at the issues."}

\* "done" in message.content.lower() (284), "complete" or "finished" (343)
HasDone(content) == content = "Done."
HasComplete(content) == content = "The PRD is complete."

LlmAnswers ==
    {[kind |-> "raises", content |-> "", tool_calls |-> <<>>]}
        \cup {[kind |-> "message", content |-> c, tool_calls |-> t] : c \in Contents, t \in ToolRequestLists}

\* The ids the LLM API gives its tool calls are distinct.
ToolCallId(n) == "call_" \o ToString(n)
WithIds(requests, first) ==
    [i \in 1..Len(requests) |-> [id |-> ToolCallId(first + i - 1), tool |-> requests[i].tool, raises |-> requests[i].raises]]

LlmCallEvent(iteration) == new_event("llm_call", [model |-> "gpt-4", iteration |-> iteration])
AgentToolCallEvent(call) == new_event("tool_call", [tool |-> call.tool, tool_call_id |-> call.id])
AgentArtifactEvent == new_event("artifact", [type |-> "document", name |-> "PRD.md"])
AgentObservationEvent(call, result) == new_event("observation", [tool_call_id |-> call.id, result |-> result])
\* prd_writer.py 346-357: the observation of the handler around the pass
PassErrorEvent(iteration) == new_event("observation", [error |-> TRUE, iteration |-> iteration])

\* prd_writer.py 346-357: an exception of the pass is recorded as an
\* observation and ends the loop; when this append raises too, run raises.
AgentExcept(a, log, ok_error) ==
    [agent |-> [a EXCEPT !.pc = IF ok_error THEN "returned" ELSE "raised",
                         !.pending = <<>>,
                         !.failed = IF ok_error THEN @ ELSE @ + 1],
     log |-> JsonlAppend(log, PassErrorEvent(a.iteration), ok_error)]

\* prd_writer.py 246-285, 289, 341-344: the loop test, the LLM call, the
\* llm_call event and the tests of the content.
agent_llm_call(a, log, answer, ok, ok_error) ==
    LET b == [a EXCEPT !.iteration = @ + 1]
        called == [b EXCEPT !.llm_calls = @ + 1] IN
    IF answer.kind = "raises" THEN AgentExcept(called, log, ok_error)
    ELSE IF ~ok THEN AgentExcept([called EXCEPT !.failed = @ + 1], log, ok_error)
    ELSE LET logged == JsonlAppend(log, LlmCallEvent(b.iteration), TRUE) IN
         IF HasDone(answer.content) THEN [agent |-> [called EXCEPT !.pc = "returned"], log |-> logged]
         ELSE IF answer.tool_calls # <<>>
              THEN [agent |-> [called EXCEPT !.pc = "tools",
                                             !.pending = WithIds(answer.tool_calls, a.next_id),
                                             !.next_id = @ + Len(answer.tool_calls)],
                    log |-> logged]
         ELSE IF HasComplete(answer.content) THEN [agent |-> [called EXCEPT !.pc = "returned"], log |-> logged]
         ELSE [agent |-> [called EXCEPT !.pc = "loop"], log |-> logged]

\* prd_writer.py 290-308: the parameters and the tool_call event
agent_tool_call(a, log, ok, ok_error) ==
    IF ~ok THEN AgentExcept([a EXCEPT !.failed = @ + 1], log, ok_error)
    ELSE [agent |-> [a EXCEPT !.pc = "observe"], log |-> JsonlAppend(log, AgentToolCallEvent(Head(a.pending)), TRUE)]

\* prd_writer.py 104-133, 310-317: the result of the tool.  write_file
\* appends an artifact event; an exception of the tool, the one of this
\* append included, becomes a result with an error.
tool_result(call, log, ok_artifact) ==
    IF call.tool \notin tools THEN [result |-> [error |-> TRUE], log |-> log]
    ELSE IF call.raises THEN [result |-> [error |-> TRUE], log |-> log]
    ELSE IF call.tool = "write_file"
         THEN [result |-> [error |-> ~ok_artifact], log |-> JsonlAppend(log, AgentArtifactEvent, ok_artifact)]
    ELSE [result |-> [error |-> FALSE], log |-> log]

\* prd_writer.py 310-340: the tool, the observation event, and the next
\* tool call of the message or the next pass.
agent_observe(a, log, ok_artifact, ok, ok_error) ==
    LET call == Head(a.pending)
        ran == tool_result(call, log, ok_artifact)
        failed == IF call.tool = "write_file" /\ ~call.raises /\ ~ok_artifact THEN a.failed + 1 ELSE a.failed
        b == [a EXCEPT !.failed = failed] IN
    IF ~ok THEN AgentExcept([b EXCEPT !.failed = @ + 1], ran.log, ok_error)
    ELSE [agent |-> [b EXCEPT !.pending = Tail(@), !.pc = IF Tail(a.pending) = <<>> THEN "loop" ELSE "tools"],
          log |-> JsonlAppend(ran.log, AgentObservationEvent(call, ran.result), TRUE)]

agentFrame == <<graphVars, supervisorVars, hookVars, last, storeVars, writerVars, artifactVars, linkers, locking, lock, request>>

\* run is called (prd_writer.py 153-244).
AgentStart ==
    /\ agent.pc = "none"
    /\ agent' = [NoAgent EXCEPT !.pc = "loop"]
    /\ UNCHANGED <<trace, agentFrame>>

\* prd_writer.py 246-285
AgentLlmCall(answer, ok, ok_error) ==
    /\ agent.pc = "loop"
    /\ agent.iteration < MaxIterations
    /\ \E r \in {agent_llm_call(agent, trace, answer, ok, ok_error)} :
        /\ agent' = r.agent
        /\ trace' = r.log
    /\ UNCHANGED agentFrame

\* prd_writer.py 246, 359-364: the loop test fails, run returns
AgentLoopEnd ==
    /\ agent.pc = "loop"
    /\ agent.iteration >= MaxIterations
    /\ agent' = [agent EXCEPT !.pc = "returned"]
    /\ UNCHANGED <<trace, agentFrame>>

\* prd_writer.py 290-308
AgentToolCall(ok, ok_error) ==
    /\ agent.pc = "tools"
    /\ \E r \in {agent_tool_call(agent, trace, ok, ok_error)} :
        /\ agent' = r.agent
        /\ trace' = r.log
    /\ UNCHANGED agentFrame

\* prd_writer.py 310-340
AgentObserve(ok_artifact, ok, ok_error) ==
    /\ agent.pc = "observe"
    /\ \E r \in {agent_observe(agent, trace, ok_artifact, ok, ok_error)} :
        /\ agent' = r.agent
        /\ trace' = r.log
    /\ UNCHANGED agentFrame

InitAgent == Init

NextAgent ==
    \/ AgentStart
    \/ \E answer \in LlmAnswers, ok \in BOOLEAN, ok_error \in BOOLEAN : AgentLlmCall(answer, ok, ok_error)
    \/ AgentLoopEnd
    \/ \E ok \in BOOLEAN, ok_error \in BOOLEAN : AgentToolCall(ok, ok_error)
    \/ \E ok_artifact \in BOOLEAN, ok \in BOOLEAN, ok_error \in BOOLEAN : AgentObserve(ok_artifact, ok, ok_error)

SpecAgent == InitAgent /\ [][NextAgent]_vars

\* The scheduler of the calling thread runs the call to its end.
FairAgent == SpecAgent /\ WF_vars(NextAgent)

(***************************************************************************)
(* Properties.                                                             *)
(***************************************************************************)
IsCall(op) == last.op = op
Returned(op) == last.op = op /\ last.outcome = "returned"

IsActionable(boundary) == boundary.type \in {"empty_metrics", "missing_tradeoffs"}
Actionable(boundaries) == SelectSeq(boundaries, IsActionable)
BoundaryTypes(boundaries) == [i \in 1..Len(boundaries) |-> boundaries[i].type]

IsIntervention(event) == event.type = "intervention"
InterventionEvents(log) == SelectSeq(log, IsIntervention)

\* C1: an analyze_step call made with 3 or more uncovered HIGH claims
\* returns ESCALATE with target "multiple_claims" and the count in the
\* rationale, whatever the boundary signals, the tool call count and the
\* evidence are; it never returns REQUEST_EVIDENCE.
C1_EscalateOnManyUncovered ==
    (Returned("analyze_step") /\ Len(last.uncovered) >= 3)
        => /\ last.ret # None
           /\ last.ret.type = "ESCALATE"
           /\ last.ret.target_id = "multiple_claims"
           /\ last.ret.rationale =
                  ToString(Len(last.uncovered)) \o " HIGH severity claims lack evidence"

\* C1 witness: 4 uncovered HIGH claims, an empty_metrics signal and more
\* than 50 tool calls, and the call returned ESCALATE/multiple_claims.
C1_Witness ==
    /\ Returned("analyze_step")
    /\ Len(last.uncovered) = 4
    /\ last.ret.rationale = "4 HIGH severity claims lack evidence"
    /\ \E i \in 1..Len(last.boundaries) : last.boundaries[i].type = "empty_metrics"
    /\ tool_call_count > 50
    /\ last.total_evidence < 5
    /\ last.ret.type = "ESCALATE"
    /\ last.ret.target_id = "multiple_claims"

\* C2: with 1 or 2 uncovered HIGH claims the call returns REQUEST_EVIDENCE
\* for the first uncovered claim in insertion order, whatever the boundary
\* signals and the tool call count are.
C2_RequestEvidenceForFirst ==
    (Returned("analyze_step") /\ Len(last.uncovered) \in {1, 2})
        => /\ last.ret # None
           /\ last.ret.type = "REQUEST_EVIDENCE"
           /\ last.ret.target_id = last.uncovered[1].id
           /\ \E k \in 1..Len(claims) :
                 /\ claims[k].id = last.ret.target_id
                 /\ claims[k].severity = "HIGH"
                 /\ ~ \E e \in 1..Len(edges) : edges[e].to_id = claims[k].id
                 /\ \A j \in 1..(k - 1) :
                        \/ claims[j].severity # "HIGH"
                        \/ \E e \in 1..Len(edges) : edges[e].to_id = claims[j].id

\* C2 witness: two uncovered HIGH claims after a covered one, an
\* empty_metrics signal and more than 50 tool calls; REQUEST_EVIDENCE names
\* the first uncovered claim, which is not the first claim.
C2_Witness ==
    /\ Returned("analyze_step")
    /\ Len(last.uncovered) = 2
    /\ \E i \in 1..Len(last.boundaries) : last.boundaries[i].type = "empty_metrics"
    /\ tool_call_count > 50
    /\ last.ret.type = "REQUEST_EVIDENCE"
    /\ last.ret.target_id = ClaimId(3)
    /\ claims[1].severity = "HIGH"

\* C3: with no uncovered HIGH claim the earliest empty_metrics or
\* missing_tradeoffs signal, in detection order, decides: REQUEST_METRICS
\* for the first, REQUEST_OPTIONS for the second; missing_evidence and
\* low_evidence_rate signals produce neither.
C3_FirstBoundaryDecides ==
    (Returned("analyze_step") /\ last.uncovered = <<>>)
        => IF Actionable(last.boundaries) # <<>>
           THEN /\ last.ret # None
                /\ last.ret.type =
                       (IF Actionable(last.boundaries)[1].type = "empty_metrics"
                        THEN "REQUEST_METRICS" ELSE "REQUEST_OPTIONS")
                /\ last.ret.target_id = Actionable(last.boundaries)[1].section
                /\ last.ret.rationale = Actionable(last.boundaries)[1].rationale
           ELSE \/ last.ret = None
                \/ last.ret.type = "ESCALATE" /\ last.ret.target_id = "tool_call_limit"

\* C3 witness: a missing_tradeoffs signal of an earlier artifact event comes
\* before an empty_metrics signal of a later one, a low_evidence_rate signal
\* is present too, and the call returned REQUEST_OPTIONS.
C3_Witness ==
    /\ Returned("analyze_step")
    /\ last.uncovered = <<>>
    /\ BoundaryTypes(last.boundaries)
           = <<"missing_tradeoffs", "empty_metrics", "low_evidence_rate">>
    /\ last.ret.type = "REQUEST_OPTIONS"

\* C4: when neither a claim rule nor a boundary rule fired, the call returns
\* ESCALATE with target "tool_call_limit" exactly when the accumulated
\* tool_call_count is above 50 and the graph holds fewer than 5 evidence
\* items, and None otherwise.
C4_ToolCallLimit ==
    (Returned("analyze_step") /\ last.uncovered = <<>>
         /\ Actionable(last.boundaries) = <<>>)
        => IF tool_call_count > 50 /\ Len(evidence) < 5
           THEN /\ last.ret # None
                /\ last.ret.type = "ESCALATE"
                /\ last.ret.target_id = "tool_call_limit"
           ELSE last.ret = None

\* C4 witness: the counter reached 51 over two calls with fewer than 5
\* evidence items, and the call returned ESCALATE/tool_call_limit.
C4_Witness ==
    /\ Returned("analyze_step")
    /\ last.uncovered = <<>>
    /\ last.count_before > 0
    /\ tool_call_count = 51
    /\ Len(evidence) = 4
    /\ last.ret.type = "ESCALATE"
    /\ last.ret.target_id = "tool_call_limit"

\* C5: a call of analyze_step issues at most one intervention: the history
\* grows by no entry or by one, the trace gains no intervention event or
\* one, and a call that returns returns None exactly when nothing was
\* appended and the appended entry otherwise.
C5_AtMostOneIntervention ==
    IsCall("analyze_step")
        => /\ \/ interventions_issued = last.issued_before
              \/ /\ Len(interventions_issued) = Len(last.issued_before) + 1
                 /\ SubSeq(interventions_issued, 1, Len(last.issued_before))
                        = last.issued_before
           /\ Len(InterventionEvents(trace)) - Len(InterventionEvents(last.trace_before))
                  \in {0, 1}
           /\ last.outcome = "returned"
                  => /\ (last.ret = None) <=> (interventions_issued = last.issued_before)
                     /\ (last.ret = None) <=> (trace = last.trace_before)
                     /\ last.ret # None
                            => /\ interventions_issued = Append(last.issued_before, last.ret)
                               /\ Len(trace) = Len(last.trace_before) + 1
                               /\ trace[Len(trace)].type = "intervention"

\* C5 witness: a second call that returned an intervention, which is the one
\* entry the history gained.
C5_Witness ==
    /\ Returned("analyze_step")
    /\ Len(last.issued_before) = 1
    /\ last.ret # None
    /\ Len(interventions_issued) = 2
    /\ interventions_issued[2] = last.ret

\* C6: analyze_step is total: every call returns, none ends in an error.
C6_AnalyzeStepTotal ==
    IsCall("analyze_step") => last.outcome = "returned"

\* C7: tool_call_count starts at 0 and changes only in analyze_step, where
\* it grows by the number of tool_call events of the window, whichever rule
\* fires and however the call ends.
C7_ToolCallCount ==
    /\ tool_call_count = 0
    /\ [][IF last.op = "none" /\ last'.op = "analyze_step"
          THEN tool_call_count' = tool_call_count + last'.tool_calls
          ELSE tool_call_count' = tool_call_count]_vars

\* C7 witness: a second call that returned early on the claim rule and
\* still added the 26 tool calls of its window to the 25 counted before.
C7_Witness ==
    /\ Returned("analyze_step")
    /\ last.count_before = 25
    /\ last.tool_calls = 26
    /\ tool_call_count = 51
    /\ last.ret.type = "REQUEST_EVIDENCE"

\* C8: the intervention events of the trace are, in number, order and
\* fields, the entries of interventions_issued.
C8_TraceMirrorsHistory ==
    /\ Len(InterventionEvents(trace)) = Len(interventions_issued)
    /\ \A i \in 1..Len(interventions_issued) :
           i <= Len(InterventionEvents(trace))
               => LET payload == InterventionEvents(trace)[i].payload
                      issued == interventions_issued[i]
                  IN  /\ payload.type = issued.type
                      /\ payload.target_id = issued.target_id
                      /\ payload.rationale = issued.rationale
                      /\ payload.suggested_next_steps = issued.suggested_next_steps
                      /\ payload.suggested_tool_calls = issued.suggested_tool_calls

HasEscalate(interventions) ==
    \E i \in 1..Len(interventions) : interventions[i].type = "ESCALATE"

\* C9: escalation is terminal: once the supervisor's history or the hook's
\* list holds an ESCALATE, no later call issues a further intervention.
C9_EscalationTerminal ==
    [][(HasEscalate(interventions_issued) \/ HasEscalate(hook_interventions))
           => /\ interventions_issued' = interventions_issued
              /\ hook_interventions' = hook_interventions]_vars

\* C10: when the supervisor produced an intervention and the handler answers
\* with stop = true, on_step puts an ESCALATE with the same target_id and
\* suggested_next_steps and the rationale "Handler requested escalation: "
\* followed by the original one in place of the last entry of
\* hook.interventions, runs the escalation handling for it and returns it;
\* with no handler, no answer or no true stop the original intervention is
\* recorded and returned as it is.
C10_HandlerStop ==
    (IsCall("on_step") /\ last.original # None)
        => IF handler_set /\ last.response = "stop"
           THEN /\ Len(hook_interventions) = Len(last.hook_before) + 1
                /\ SubSeq(hook_interventions, 1, Len(last.hook_before)) = last.hook_before
                /\ LET replaced == hook_interventions[Len(hook_interventions)]
                   IN  /\ replaced.type = "ESCALATE"
                       /\ replaced.target_id = last.original.target_id
                       /\ replaced.rationale =
                              "Handler requested escalation: " \o last.original.rationale
                       /\ replaced.suggested_next_steps = last.original.suggested_next_steps
                       /\ last.outcome = "returned" => last.ret = replaced
                /\ last.escalated
                /\ packets_set => packet_files = last.packets_before + 1
                /\ interventions_issued = Append(last.issued_before, last.original)
           ELSE /\ hook_interventions = Append(last.hook_before, last.original)
                /\ last.outcome = "returned" => last.ret = last.original
                /\ last.escalated <=> last.original.type = "ESCALATE"

\* C10 witness: the handler stopped a REQUEST_EVIDENCE; on_step returned the
\* ESCALATE that took its place and a packet was written.
C10_Witness ==
    /\ Returned("on_step")
    /\ handler_set
    /\ last.response = "stop"
    /\ last.original.type = "REQUEST_EVIDENCE"
    /\ last.ret.type = "ESCALATE"
    /\ last.ret.target_id = last.original.target_id
    /\ hook_interventions[Len(hook_interventions)] = last.ret
    /\ packets_set
    /\ packet_files = 1

(***************************************************************************)
(* Properties of the evidence graph and the binder.                        *)
(***************************************************************************)
IsSupports(edge, evidence_id, claim_id) ==
    edge.type = "supports" /\ edge.from_id = evidence_id /\ edge.to_id = claim_id

Linked(es, evidence_id, claim_id) ==
    \E k \in 1..Len(es) : IsSupports(es[k], evidence_id, claim_id)

\* C11: after any sequence of add_claim, add_evidence, link_support and
\* binding passes of one caller, the edge list holds at most one supports
\* edge for a pair (evidence_id, claim_id), and a link_support call for a
\* pair that is linked already leaves the number of edges as it was.
C11_SupportsEdgeOnce ==
    /\ \A a, b \in 1..Len(edges) :
           (/\ edges[a].type = "supports"
            /\ edges[b].type = "supports"
            /\ edges[a].from_id = edges[b].from_id
            /\ edges[a].to_id = edges[b].to_id) => a = b
    /\ (IsCall("link_support") /\ Linked(last.before.edges, last.args[2], last.args[1]))
           => Len(edges) = Len(last.before.edges)

\* A second link_support for a linked pair, in a graph with another edge.
C11_Witness ==
    /\ IsCall("link_support")
    /\ Linked(last.before.edges, last.args[2], last.args[1])
    /\ Len(last.before.edges) = 2
    /\ Len(edges) = 2

\* C12: a link_support call whose claim_id or evidence_id the graph does
\* not have returns without an error and leaves the claims, the evidence
\* and the edges as they were.
C12_LinkUnknownIsNoOp ==
    (/\ IsCall("link_support")
     /\ \/ last.args[1] \notin Keys(last.before.claims)
        \/ last.args[2] \notin Keys(last.before.evidence))
        => /\ last.outcome = "returned"
           /\ Graph(claims, evidence, edges) = last.before

\* An unknown claim id with a known evidence id, in a graph with an edge.
C12_Witness ==
    /\ IsCall("link_support")
    /\ last.args[1] \notin Keys(last.before.claims)
    /\ last.args[2] \in Keys(last.before.evidence)
    /\ last.before.claims # <<>>
    /\ Len(edges) = 1

\* severity >= min_severity under LOW < MEDIUM < HIGH
AtLeast(severity, min_severity) ==
    \/ min_severity = "LOW" /\ severity \in {"LOW", "MEDIUM", "HIGH"}
    \/ min_severity = "MEDIUM" /\ severity \in {"MEDIUM", "HIGH"}
    \/ min_severity = "HIGH" /\ severity = "HIGH"

Targeted(es, claim_id) ==
    \E k \in 1..Len(es) : es[k].type = "supports" /\ es[k].to_id = claim_id

Members(seq) == {seq[k] : k \in 1..Len(seq)}

Ids(map) == [k \in 1..Len(map) |-> map[k].id]

PositionOf(map, id) == CHOOSE k \in 1..Len(map) : map[k].id = id

\* C13: uncovered_claims(min_severity), for LOW, MEDIUM and HIGH and any
\* graph, returns exactly the claims of the graph whose severity is at
\* least min_severity (LOW < MEDIUM < HIGH) and that no supports edge
\* targets: none else, none left out, none twice.
C13_UncoveredExactly ==
    IsCall("uncovered_claims") =>
        /\ Members(last.ret) =
               {claim \in Members(last.before.claims) :
                   /\ AtLeast(claim.severity, last.args[1])
                   /\ ~ Targeted(last.before.edges, claim.id)}
        /\ Cardinality(Members(last.ret)) = Len(last.ret)

\* A MEDIUM query on a graph with a LOW claim, an uncovered MEDIUM or HIGH
\* claim and a covered one.
C13_Witness ==
    /\ IsCall("uncovered_claims")
    /\ last.args[1] = "MEDIUM"
    /\ Len(last.ret) = 1
    /\ \E claim \in Members(last.before.claims) : claim.severity = "LOW"
    /\ \E claim \in Members(last.before.claims) :
           /\ AtLeast(claim.severity, "MEDIUM")
           /\ Targeted(last.before.edges, claim.id)

\* C14: uncovered_claims returns the claims in the order of the claim
\* map, which is the order in which the ids were first added: add_claim
\* puts a new id last and leaves an id the map has where it is.
C14_InsertionOrder ==
    /\ IsCall("uncovered_claims") =>
           \A a, b \in 1..Len(last.ret) :
               a < b => PositionOf(last.before.claims, last.ret[a].id)
                            < PositionOf(last.before.claims, last.ret[b].id)
    /\ IsCall("add_claim") =>
           /\ last.args[1] \in Members(claims)
           /\ Ids(claims) =
                  IF last.args[1].id \in Keys(last.before.claims)
                  THEN Ids(last.before.claims)
                  ELSE Append(Ids(last.before.claims), last.args[1].id)

\* The LOW claim 3 was added before the HIGH claim 1 and is returned first.
C14_Witness ==
    /\ IsCall("uncovered_claims")
    /\ Len(last.ret) >= 2
    /\ last.ret[1].id = ClaimId(3) /\ last.ret[1].severity = "LOW"
    /\ last.ret[2].id = ClaimId(1) /\ last.ret[2].severity = "HIGH"

\* C15: in every state reached by claim insertions and binding passes (and
\* the other graph calls), uncovered_claims("HIGH") holds no claim that a
\* supports edge targets.
C15_CoveredNotUncovered ==
    /\ \A claim \in Members(uncovered_claims(claims, edges, "HIGH")) :
           ~ Targeted(edges, claim.id)
    /\ (IsCall("uncovered_claims") /\ last.args[1] = "HIGH") =>
           \A claim \in Members(last.ret) : ~ Targeted(last.before.edges, claim.id)

\* A binding pass has covered a HIGH claim and left another one uncovered.
C15_Witness ==
    /\ IsCall("bind_evidence")
    /\ Len(edges) > Len(last.before.edges)
    /\ \E claim \in Members(claims) :
           claim.severity = "HIGH" /\ Targeted(edges, claim.id)
    /\ uncovered_claims(claims, edges, "HIGH") # <<>>

\* The pool of a binding pass of the hook, as bind_evidence builds it.
PoolOf(call) == EvidenceSources(trace, HookBundle(call.args[1], call.args[2]))

Score(claim, source) == keyword_overlap(claim.text, source.text)

IsMaximum(claim, pool, i) ==
    \A j \in 1..Len(pool) : ~ Greater(Score(claim, pool[j]), Score(claim, pool[i]))

\* The first source in pool order with the maximum score.
FirstMaximum(claim, pool) ==
    CHOOSE i \in 1..Len(pool) :
        IsMaximum(claim, pool, i) /\ \A j \in 1..(i - 1) : ~ IsMaximum(claim, pool, j)

\* score > 1/5
Accepted(claim, pool) ==
    /\ pool # <<>>
    /\ LET score == Score(claim, pool[FirstMaximum(claim, pool)])
       IN  5 * score[1] > score[2]

AcceptedClaims(call) ==
    LET Bound(claim) == Accepted(claim, PoolOf(call))
    IN  SelectSeq(call.before.claims, Bound)

EdgesTo(es, claim_id) ==
    LET To(edge) == edge.to_id = claim_id
    IN  SelectSeq(es, To)

\* The sources are chosen as C16 says.
C16_Choice ==
    IsCall("bind_evidence") =>
        LET pool == PoolOf(last)
            accepted == AcceptedClaims(last)
        IN  /\ Len(last.bound) = Len(accepted)
            /\ \A k \in 1..Len(accepted) :
                   LET source == pool[FirstMaximum(accepted[k], pool)]
                   IN  /\ last.bound[k].snippet =
                              IF Len(source.text) > 200
                              THEN SubSeq(source.text, 1, 200)
                              ELSE source.text
                       /\ last.bound[k].source_ref = source.source_ref
                       /\ last.bound[k].source_type = source.source_type
                       /\ last.bound[k] \in Members(evidence)
                       /\ Linked(edges, last.bound[k].id, accepted[k].id)
            /\ \A claim \in Members(last.before.claims) :
                   ~ Accepted(claim, pool) =>
                       EdgesTo(edges, claim.id) = EdgesTo(last.before.edges, claim.id)

\* C16: a binding pass takes for every claim the first source of the pool
\* with the maximum score and accepts it only with a score above 1/5; for
\* an accepted claim one new Evidence (first 200 characters of the text as
\* snippet, source_ref and source_type of the source) and one supports
\* edge to the claim are added to the graph, for any other claim nothing.
C16_BindAddsOnePerAcceptedClaim ==
    /\ C16_Choice
    /\ IsCall("bind_evidence") =>
           /\ Len(evidence) = Len(last.before.evidence) + Len(AcceptedClaims(last))
           /\ Len(edges) = Len(last.before.edges) + Len(AcceptedClaims(last))
           /\ \A k \in 1..Len(last.before.evidence) :
                  evidence[k] = last.before.evidence[k]
           /\ \A k \in 1..Len(last.before.edges) : edges[k] = last.before.edges[k]

\* The pool as C17 has it: the items of the configured evidence source, or
\* without one the issues and the milestone of the bundle, and after them
\* the observations of the trace that have a title or a body.
SuppliedPool(call) ==
    (IF call.args[1].set
     THEN call.args[1].items
     ELSE IssueSources(call.args[2]) \o MilestoneSources(call.args[2]))
        \o TraceSources(trace)

\* C17: a binding pass of the hook binds every claim to the best source,
\* above the threshold, of the pool made of the evidence source's items
\* (of the bundle's issue and milestone texts when the hook has no
\* evidence source) and of the trace's observations with a title or body.
C17_SuppliedItemsArePool ==
    IsCall("bind_evidence") =>
        LET pool == SuppliedPool(last)
            Bound(claim) == Accepted(claim, pool)
            accepted == SelectSeq(last.before.claims, Bound)
        IN  /\ Len(last.bound) = Len(accepted)
            /\ \A k \in 1..Len(accepted) :
                   /\ last.bound[k].source_ref
                          = pool[FirstMaximum(accepted[k], pool)].source_ref
                   /\ Linked(edges, last.bound[k].id, accepted[k].id)

(***************************************************************************)
(* Properties of the trace store.                                          *)
(***************************************************************************)
IsPrefix(s, t) == Len(s) <= Len(t) /\ \A k \in 1..Len(s) : s[k] = t[k]

\* Every line of the file was written by an append of this store.
WrittenByAppends == Len(file) = Len(appended)

ReadsAppended ==
    WrittenByAppends =>
        /\ iter_events(file) = [outcome |-> "returned", events |-> appended]
        /\ Returned("iter_events") => last.ret = appended

KeepsLines ==
    /\ IsPrefix(file, file')
    /\ IsPrefix(appended, appended')
    /\ (WrittenByAppends /\ WrittenByAppends')
           => IsPrefix(iter_events(file).events, iter_events(file').events)

WellFormed(line) ==
    /\ line.json = "object"
    /\ {"type", "payload"} \subseteq DOMAIN line.data
    /\ line.data.type \in EventTypes

\* C20: iter_events passes over every line that gives no Event (blank,
\* truncated JSON, JSON that is no object, an object without a field or
\* with an unknown type) without raising, and yields the events of all
\* well-formed lines, those after such a line too, in the order of the file.
C20_SkipsMalformed ==
    IsCall("iter_events") =>
        /\ last.outcome = "returned"
        /\ LET good == SelectSeq(last.before, WellFormed)
           IN  last.ret = [k \in 1..Len(good) |->
                              [type |-> good[k].data.type,
                               payload |-> good[k].data.payload]]

\* The part of C20 about lines that are JSON objects or no JSON at all.
C20_ObjectsAndTruncated ==
    (/\ IsCall("iter_events")
     /\ \A k \in 1..Len(last.before) :
            last.before[k].json \in {"object", "invalid", "blank"})
        => /\ last.outcome = "returned"
           /\ LET good == SelectSeq(last.before, WellFormed)
              IN  last.ret = [k \in 1..Len(good) |->
                                 [type |-> good[k].data.type,
                                  payload |-> good[k].data.payload]]

(***************************************************************************)
(* Properties of the concurrent writers.                                   *)
(***************************************************************************)
\* The writer is between _acquire_lock and the end of its flush.
InSection(w) == writers[w].pc \in {"write", "flush"}

\* The head of a line is in the file and something else comes after it.
Torn(pieces) ==
    \E k \in 1..(Len(pieces) - 1) :
        /\ pieces[k].part = "head"
        /\ ~ (pieces[k + 1].part = "tail" /\ pieces[k + 1].line = pieces[k].line)

\* C19: a writer is in its write and flush only while its store holds the
\* exclusive lock; whatever the interleaving of a process with its own
\* store and two threads that share a store, no two writers are in the
\* write and flush section at once and no line of the file is made of
\* parts of two events.
C19_ExclusiveAppend ==
    /\ \A w \in Writers : InSection(w) => flock = StoreOf(w)
    /\ \A w1, w2 \in Writers : (InSection(w1) /\ InSection(w2)) => w1 = w2
    /\ ~ Torn(file)

\* C19 where flock is used and one thread at most uses the shared store:
\* every writer has its own open file description.
C19_OwnStores ==
    (/\ platform # "win32"
     /\ \E w \in {"t1", "t2"} : writers[w] = IdleWriter)
        => C19_ExclusiveAppend

\* The call of extract_claims_from_artifact that has just returned.
Extracted == Returned("extract_claims_from_artifact")

\* The lines up to line n that a section pattern matches.
Recognized(lines, n) == {k \in 1..n : LineFacts[lines[k]].section # NoSection}

\* C21: the extractor keeps a section cursor.  Every claim comes from a line
\* at or after the first recognized header and carries the section of the
\* most recent recognized header at or before its source line; a header no
\* pattern recognizes leaves the cursor where it was.
C21_SectionCursor ==
    Extracted =>
        \A k \in 1..Len(last.ret) :
            LET claim == last.ret[k]
                headers == Recognized(last.found.lines, claim.source_line)
            IN  /\ headers # {}
                /\ claim.section = LineFacts[last.found.lines[Greatest(headers)]].section

\* A long sentence before any header, the header of Risks, then a header
\* no pattern recognizes: the sentence of line 1 gives no claim, and the
\* unrecognized header line gives the one claim, in the section of line 2.
C21_Witness ==
    /\ Extracted
    /\ last.found.lines = <<LineLatency, LineRisks, LineBackground>>
    /\ Len(last.ret) = 1
    /\ last.ret[1].section = "Risks"
    /\ last.ret[1].source_line = 3

\* C22: the severity of an extracted claim is a function of its section:
\* Goals, Scope, Metrics and Rollout give HIGH, Risks gives MEDIUM, any
\* other section (Non-goals) gives LOW, and no other value occurs.
C22_SeverityBySection ==
    Extracted =>
        \A k \in 1..Len(last.ret) :
            LET claim == last.ret[k]
            IN  /\ claim.severity \in {"HIGH", "MEDIUM", "LOW"}
                /\ claim.severity = "HIGH" <=> claim.section \in {"Goals", "Scope", "Metrics", "Rollout"}
                /\ claim.severity = "MEDIUM" <=> claim.section = "Risks"
                /\ claim.severity = "LOW" <=> claim.section = "Non-goals"

\* One extraction returns a HIGH claim of Goals, then a LOW claim of Non-goals.
C22_Witness ==
    /\ Extracted
    /\ Len(last.ret) = 2
    /\ last.ret[1].section = "Goals" /\ last.ret[1].severity = "HIGH"
    /\ last.ret[2].section = "Non-goals" /\ last.ret[2].severity = "LOW"

\* The claims of one extraction of artifact_path carry the ordinals 1, 2, 3, ...
\* in output order, and their source lines start at 1 and never decrease.
Ordinals(found, artifact_path) ==
    /\ \A k \in 1..Len(found) :
          /\ found[k].id = path_stem(artifact_path) \o "_claim_" \o ToString(k)
          /\ found[k].source_line >= 1
    /\ \A j, k \in 1..Len(found) :
          /\ j < k => found[j].source_line <= found[k].source_line
          /\ j # k => found[j].id # found[k].id

\* The on_artifact_created call that has just returned.
ArtifactCreated == Returned("on_artifact_created")

\* No extracted claim has the id of a claim that the graph holds for
\* another artifact path.
OwnIds(found, graph) ==
    \A k \in 1..Len(found), i \in 1..Len(graph.claims) :
        graph.claims[i].id = found[k].id => graph.claims[i].artifact_path = found[k].artifact_path

\* C23 (part): ordinals and source lines of one extraction.
C23_Ordinals ==
    /\ Extracted => Ordinals(last.ret, last.artifact_path)
    /\ ArtifactCreated => Ordinals(last.extracted, last.artifact_path)

\* C23: claim ids are unique and stable per artifact and ordinal: the ids
\* of one extraction carry the ordinals 1, 2, 3, ... in output order, the
\* source lines are 1-based and non-decreasing, and the claims of two
\* different artifact paths never share an id in one graph.
C23_UniqueIds ==
    /\ Extracted => Ordinals(last.ret, last.artifact_path)
    /\ ArtifactCreated =>
          /\ Ordinals(last.extracted, last.artifact_path)
          /\ OwnIds(last.extracted, last.before)

\* C24 (part): a path with no file gives an empty list and no error.
C24_Missing ==
    (IsCall("extract_claims_from_artifact") /\ ~last.found.exists) =>
        (last.outcome = "returned" /\ last.ret = <<>>)

\* C24: extract_claims_from_artifact returns an empty list and raises no
\* error when the file does not exist, and also when it exists but cannot
\* be read.
C24_EmptyWhenUnreadable ==
    (IsCall("extract_claims_from_artifact") /\ (~last.found.exists \/ ~last.found.readable)) =>
        (last.outcome = "returned" /\ last.ret = <<>>)

\* The claim map keeps every record it holds.
KeepsClaims == \A i \in 1..Len(claims) : \E j \in 1..Len(claims') : claims'[j] = claims[i]

\* C25 (part): bind_evidence_now and on_step leave the claim map as it is.
C25_BindAndStep == [][last'.op \in {"bind_evidence", "on_step"} => claims' = claims]_vars

\* C25: claims are never mutated after creation: the record stored under a
\* claim id (text, section, severity, source_line, artifact_path) is the
\* same in every later state, whatever on_artifact_created,
\* bind_evidence_now and on_step calls follow.
C25_ClaimsImmutable == [][KeepsClaims]_vars

\* The run is past extraction and binding.
RunBound == run.pc \in {"analyze", "report", "done"}

\* C26: there is one evidence graph per run: the graph that the extractor
\* and the binder of run_agent_with_supervisor fill is the graph the
\* Supervisor reads, so after extraction and binding the supervisor's
\* uncovered_claims("HIGH") equals that of the graph handed to the report
\* and packet generators.
C26_OneGraphPerRun ==
    RunBound =>
        /\ Graph(claims, evidence, edges) = run.graph
        /\ uncovered_claims(claims, edges, "HIGH")
               = uncovered_claims(run.graph.claims, run.graph.edges, "HIGH")

\* The detect_boundaries call that has just returned.
Detected == Returned("detect_boundaries")

OfType(boundaries, type) == SelectSeq(boundaries, LAMBDA b : b.type = type)

IsMetricsHeader(line) == line.header /\ line.name \in {"Metrics", "Metric", "Success Metrics", "Success Metric"}

\* The first Metrics section of the document, from its header to the line
\* before the next header, holds no percentage and no count with a unit.
FirstMetricsSectionEmpty(doc) ==
    \E i \in 1..Len(doc) :
        /\ IsMetricsHeader(doc[i])
        /\ \A k \in 1..(i - 1) : ~IsMetricsHeader(doc[k])
        /\ \A k \in i..Len(doc) :
              (\A j \in (i + 1)..k : ~doc[j].header) => ~doc[k].measurable

\* The artifact events of the window whose file exists and has an empty
\* first Metrics section.
EmptyMetricsEvents(events, fs) ==
    {i \in 1..Len(events) :
        /\ events[i].type = "artifact"
        /\ fs[events[i].payload.path] # "missing"
        /\ FirstMetricsSectionEmpty(Content(fs[events[i].payload.path]))}

\* C27: detect_boundaries raises one empty_metrics event for each artifact
\* event of the window whose file exists and whose first Metrics or Success
\* Metrics section has no percentage and no count with a unit, and none for
\* an artifact whose Metrics section has one or that has no Metrics section.
C27_EmptyMetrics ==
    Detected =>
        Len(OfType(last.ret, "empty_metrics")) = Cardinality(EmptyMetricsEvents(last.events, last.fs))

\* "## Metrics" followed by "TBD.", named by two artifact events, gives two
\* empty_metrics events.
C27_Witness ==
    /\ Detected
    /\ Len(last.events) = 2
    /\ last.fs["prd.md"] = "metrics_tbd"
    /\ \A i \in 1..2 : last.events[i] = ArtifactEvent("prd.md")
    /\ Len(OfType(last.ret, "empty_metrics")) = 2

\* C28: detect_boundaries raises exactly one low_evidence_rate event if and
\* only if the window holds more than 20 tool_call events and its
\* observation events are fewer than 30% of them
\* (10 * observations < 3 * tool_calls); otherwise it raises none.
C28_LowEvidenceRate ==
    Detected =>
        LET calls == CountType(last.events, "tool_call")
            observations == CountType(last.events, "observation")
        IN  Len(OfType(last.ret, "low_evidence_rate"))
                = IF calls > 20 /\ 10 * observations < 3 * calls THEN 1 ELSE 0

\* 21 tool calls with 6 observations (under 30%) raise the event.
C28_Witness ==
    /\ Detected
    /\ CountType(last.events, "tool_call") = 21
    /\ CountType(last.events, "observation") = 6
    /\ Len(OfType(last.ret, "low_evidence_rate")) = 1

\* The missing_evidence events of the result name the uncovered HIGH claims
\* of the graph, one each, in their order, with id and section.
NamesUncovered(boundaries, graph) ==
    LET uncovered == uncovered_claims(graph.claims, graph.edges, "HIGH")
        missing == OfType(boundaries, "missing_evidence")
    IN  /\ Len(missing) = Len(uncovered)
        /\ \A i \in 1..Len(uncovered) :
              /\ missing[i].claim_id = uncovered[i].id
              /\ missing[i].section = uncovered[i].section

\* A detect_boundaries step leaves the graph and the trace as they were.
DetectKeeps ==
    last'.op = "detect_boundaries" => (claims' = claims /\ evidence' = evidence /\ edges' = edges /\ trace' = trace)

DuplicateEdge == \E i, j \in 1..Len(edges) : i < j /\ edges[i] = edges[j] /\ edges[i].type = "supports"

\* C30: link_support is not atomic.  Two callers that run it for the same
\* (evidence_id, claim_id) pair on one graph without mutual exclusion can
\* both pass the duplicate check before either appends, and the edge list
\* then holds two identical supports edges (the witness); with the calls
\* serialized by a lock that state is unreachable.
C30_SerializedNoDuplicate == locking => ~DuplicateEdge

\* Without a lock both callers have appended the same edge.
C30_Witness ==
    /\ ~locking
    /\ DuplicateEdge
    /\ \A c \in Callers : linkers[c].pc = "idle"

(***************************************************************************)
(* Properties of the escalation events.                                    *)
(***************************************************************************)
EventsSince(log, before) == SubSeq(log, Len(before) + 1, Len(log))

EventTypesOf(events) == [i \in 1..Len(events) |-> events[i].type]

\* What Supervisor.analyze_step would append to the trace if it were called
\* now with the last DefaultWindowSize events.
AnalyzeAlone(ok) ==
    analyze_step(tool_call_count, interventions_issued, trace, claims, evidence,
        edges, NoFiles, RecentEvents(trace, DefaultWindowSize), ok).log

\* C31: an on_step call that returns an ESCALATE with packets_dir and run_id
\* set has appended to the trace, in this order and nothing else, the
\* intervention event of the supervisor's intervention, one
\* escalation_packet event and one decision event of type "escalation";
\* without packets_dir or run_id it has appended the intervention event
\* alone and written no packet.  An on_step call that does not escalate, and
\* analyze_step called on its own, append no escalation_packet and no
\* decision event.
C31_EscalationEventOrder ==
    /\ (Returned("on_step") /\ last.ret.type = "ESCALATE")
           => /\ SubSeq(trace, 1, Len(last.trace_before)) = last.trace_before
              /\ IF packets_set
                 THEN /\ Len(trace) = Len(last.trace_before) + 3
                      /\ trace[Len(last.trace_before) + 1] = InterventionEvent(last.original)
                      /\ trace[Len(last.trace_before) + 2].type = "escalation_packet"
                      /\ trace[Len(last.trace_before) + 3].type = "decision"
                      /\ trace[Len(last.trace_before) + 3].payload.type = "escalation"
                      /\ packet_files = last.packets_before + 1
                 ELSE /\ trace = Append(last.trace_before, InterventionEvent(last.original))
                      /\ packet_files = last.packets_before
    /\ (IsCall("on_step") /\ ~last.escalated)
           => /\ CountType(trace, "escalation_packet") = CountType(last.trace_before, "escalation_packet")
              /\ CountType(trace, "decision") = CountType(last.trace_before, "decision")
              /\ packet_files = last.packets_before
    /\ \A ok \in BOOLEAN :
           /\ SubSeq(AnalyzeAlone(ok), 1, Len(trace)) = trace
           /\ \A i \in (Len(trace) + 1)..Len(AnalyzeAlone(ok)) :
                  AnalyzeAlone(ok)[i].type = "intervention"

\* C31 witness: the supervisor itself escalated, packets are configured and
\* the three events are the last three of the trace.
C31_Witness ==
    /\ Returned("on_step")
    /\ packets_set
    /\ last.original.type = "ESCALATE"
    /\ last.ret = last.original
    /\ EventTypesOf(EventsSince(trace, last.trace_before))
           = <<"intervention", "escalation_packet", "decision">>

\* C31 witness, second case: an escalation without packets_dir leaves the
\* intervention event alone.
C31_WitnessUnconfigured ==
    /\ Returned("on_step")
    /\ ~packets_set
    /\ last.ret.type = "ESCALATE"
    /\ EventTypesOf(EventsSince(trace, last.trace_before)) = <<"intervention">>

(***************************************************************************)
(* Properties of GitHubClient._request.                                    *)
(***************************************************************************)
Is403(answer) == answer.kind = "response" /\ answer.status = 403

Failed(answer) == answer.kind = "exception" \/ (~Is403(answer) /\ IsHttpError(answer.status))

Attempts == Len(request.answers)

FailedAfterRetries ==
    /\ request.outcome = "raised"
    /\ request.exception = [name |-> "RequestException", message |-> "Failed after retries"]

\* What the claim says of a call, whatever the Retry-After headers are.
RetriesAsStated ==
    /\ Attempts <= MaxRetries
    /\ request.outcome = "returned"
           => /\ request.ret = request.answers[Attempts]
              /\ request.ret.kind = "response"
              /\ ~Is403(request.ret) /\ ~IsHttpError(request.ret.status)
              /\ \A k \in 1..(Attempts - 1) : Is403(request.answers[k]) \/ Failed(request.answers[k])
    /\ (Attempts > 0 /\ Is403(request.answers[Attempts]))
           => IF Attempts < MaxRetries
              THEN /\ request.pc = "attempt"
                   /\ request.attempt = Attempts
                   /\ request.waits # <<>>
              ELSE FailedAfterRetries
    /\ (Attempts = MaxRetries /\ Failed(request.answers[MaxRetries]))
           => /\ request.outcome = "raised"
              /\ request.exception = ExceptionOf(request.answers[MaxRetries])
    /\ (Attempts = MaxRetries /\ \A k \in 1..MaxRetries : Is403(request.answers[k]))
           => FailedAfterRetries

\* The Retry-After header of every 403 so far is absent or a count of
\* seconds.
SecondsOnly ==
    \A k \in 1..Attempts :
        Is403(request.answers[k])
            => retry_after(request.answers[k]).ok /\ retry_after(request.answers[k]).value >= 0

\* C32, the part that holds: no call makes more than 3 attempts or returns
\* a 403 or an error response, and with Retry-After headers that are
\* counts of seconds the call goes as stated.
C32_Bounded ==
    /\ Attempts <= MaxRetries
    /\ request.outcome = "returned" => ~Is403(request.ret) /\ ~IsHttpError(request.ret.status)
    /\ SecondsOnly => RetriesAsStated

\* C32, termination: under a scheduler that lets the call run, every call
\* of _request ends.
C32_Terminates == (request.pc = "rate_limit") ~> (request.pc = "done")

\* C32: _request makes at most 3 attempts, returns the first response that
\* is neither a 403 nor an HTTP error, takes a 403 as a consumed attempt
\* followed by a wait, re-raises the exception of a failed third attempt,
\* raises RequestException("Failed after retries") after three 403s and
\* never returns a 403 or an error response.
C32_RequestRetries == RetriesAsStated

\* A 403 whose Retry-After header is a date ended the call with ValueError
\* in its first attempt.
C32_ValueError ==
    /\ request.pc = "done"
    /\ Attempts = 1
    /\ Is403(request.answers[1])
    /\ request.exception.name = "ValueError"

(***************************************************************************)
(* Properties of the graph over time.                                      *)
(***************************************************************************)
\* C33: every edge of the graph is a supports edge from an id of the
\* evidence map to an id of the claim map, whatever add_claim,
\* add_evidence, link_support and bind_evidence calls were made.
C33_ReferentialIntegrity ==
    \A i \in 1..Len(edges) :
        /\ edges[i].type = "supports"
        /\ edges[i].from_id \in Keys(evidence)
        /\ edges[i].to_id \in Keys(claims)

\* C33 witness: a binding pass added an edge to a graph that had one, after
\* link_support calls for ids the graph has and has not.
C33_Witness ==
    /\ IsCall("bind_evidence")
    /\ Len(last.before.edges) = 1
    /\ Len(edges) = 2
    /\ Len(claims) = MaxGraphClaims

Covered(cs, es) == {id \in Keys(cs) : HasEvidence(es, id)}

UncoveredHigh(cs, es) == Len(uncovered_claims(cs, es, "HIGH"))

\* C34, the part that holds: no step removes a claim id, an evidence id or
\* an edge, and a covered claim stays covered.
C34_NothingRemoved ==
    [][/\ Keys(claims) \subseteq Keys(claims')
       /\ Keys(evidence) \subseteq Keys(evidence')
       /\ IsPrefix(edges, edges')
       /\ Covered(claims, edges) \subseteq Covered(claims', edges')]_vars

\* C34: no step removes a claim, an evidence record or an edge, a covered
\* claim stays covered, and the number of uncovered HIGH claims grows only
\* in a step that adds a claim under a new id.
C34_CoverageStable ==
    [][/\ Keys(claims) \subseteq Keys(claims')
       /\ Keys(evidence) \subseteq Keys(evidence')
       /\ IsPrefix(edges, edges')
       /\ Covered(claims, edges) \subseteq Covered(claims', edges')
       /\ UncoveredHigh(claims', edges') > UncoveredHigh(claims, edges)
              => Keys(claims') # Keys(claims)]_vars

\* An add_claim for an id the graph has raised the number of uncovered HIGH
\* claims.
C34_SeverityRaised ==
    /\ IsCall("add_claim")
    /\ Keys(last.before.claims) = Keys(claims)
    /\ UncoveredHigh(claims, edges) > UncoveredHigh(last.before.claims, last.before.edges)

(***************************************************************************)
(* Properties of the binding passes of the hook.                           *)
(***************************************************************************)
\* The pool of the hook's binding passes: its bundle and the observations
\* of the trace, which only grows.
HookPool == EvidenceSources(trace, IssuesBundle)

ClaimOf(id) == claims[PositionOf(claims, id)]

RecordOf(id) == evidence[PositionOf(evidence, id)]

\* The record holds the locator and the snippet of a source of the pool
\* that matches the claim above the threshold.
RecordMatches(record, claim) ==
    \E k \in 1..Len(HookPool) :
        /\ record.source_ref = HookPool[k].source_ref
        /\ record.snippet = Slice(HookPool[k].text, SnippetLength)
        /\ AboveThreshold(Score(claim, HookPool[k]))

\* C35: after any sequence of binding passes of the hook, the record stored
\* under the evidence id of a supports edge holds the source_ref and the
\* snippet of a source that was matched to the claim of the edge: no pass
\* writes over an evidence id that an earlier pass linked to another claim.
C35_RecordsMatchEdges ==
    \A i \in 1..Len(edges) :
        RecordMatches(RecordOf(edges[i].from_id), ClaimOf(edges[i].to_id))

\* A binding pass after the trace grew has given an evidence id that
\* supports the latency claim to the rollback claim as well, and its record
\* is now the observation about the rollback.
C35_Overwritten ==
    /\ last.op \in {"on_artifact_created", "bind_evidence"}
    /\ \E i, j \in 1..Len(edges) :
           /\ edges[i].from_id = edges[j].from_id
           /\ edges[i].to_id # edges[j].to_id
           /\ ClaimOf(edges[i].to_id).text = TextLatency
           /\ ClaimOf(edges[j].to_id).text = TextRollback \o "."
           /\ RecordOf(edges[i].from_id).source_ref = "trace:ts"

\* The graph a second binding pass with the arguments of the last one would
\* leave.
BoundAgain ==
    hook_bind_evidence(Graph(claims, evidence, edges), trace, last.args[1], last.args[2]).graph

\* C36: binding again with the same claims, trace events and bundle on the
\* graph the pass left changes nothing: the claim map, the evidence map and
\* the edge list stay as they were after the first pass.
C36_RebindIdempotent ==
    IsCall("bind_evidence") => BoundAgain = Graph(claims, evidence, edges)

\* C36 witness: a pass that bound two claims, wrote over a record of the
\* graph and added an edge; the second pass finds both edges and rewrites
\* the same two records.
C36_Witness ==
    /\ IsCall("bind_evidence")
    /\ Len(last.bound) = 2
    /\ Len(last.before.evidence) = 2
    /\ last.before.evidence # evidence
    /\ Len(edges) > Len(last.before.edges)
    /\ BoundAgain = Graph(claims, evidence, edges)

(***************************************************************************)
(* Properties of the default window.                                       *)
(***************************************************************************)
\* C37: with on_step() reading the last DefaultWindowSize trace events on
\* every call, the supervisor's tool_call_count is never above the number
\* of tool_call events in the trace: no event is counted twice.
C37_CountedOnce == tool_call_count <= CountType(trace, "tool_call")

\* Two on_step() calls over a trace with one tool call counted 2.
C37_CountedTwice ==
    /\ IsCall("on_step")
    /\ CountType(trace, "tool_call") = 1
    /\ tool_call_count = 2

\* C38: with the default window of 20 events the detector never reports
\* low_evidence_rate, which takes more than 20 tool calls in the window.
C38_NoLowEvidenceRate ==
    IsCall("on_step")
        => /\ last.tool_calls <= DefaultWindowSize
           /\ \A i \in 1..Len(last.boundaries) : last.boundaries[i].type # "low_evidence_rate"

\* C38 witness: the trace held 41 tool calls and no observation, the call
\* saw the last 20 of them.
C38_Witness ==
    /\ Returned("on_step")
    /\ CountType(last.trace_before, "tool_call") > 2 * LowRateToolCalls
    /\ CountType(last.trace_before, "observation") = 0
    /\ last.tool_calls = DefaultWindowSize

(***************************************************************************)
(* Properties of the intervention records.                                 *)
(***************************************************************************)
TypesOf(interventions) == [i \in 1..Len(interventions) |-> interventions[i].type]

\* C39: the intervention event an on_step call wrote to the trace has the
\* type of the intervention the call returned, and hook.interventions and
\* supervisor.interventions_issued hold the same types entry by entry, also
\* when the handler's stop made the intervention an ESCALATE.
C39_TypesAgree ==
    /\ (Returned("on_step") /\ last.ret # None)
           => /\ Len(trace) > Len(last.trace_before)
              /\ trace[Len(last.trace_before) + 1].type = "intervention"
              /\ trace[Len(last.trace_before) + 1].payload.type = last.ret.type
    /\ TypesOf(hook_interventions) = TypesOf(interventions_issued)

\* The handler stopped a REQUEST_EVIDENCE: on_step returned ESCALATE, the
\* trace and the supervisor's history hold REQUEST_EVIDENCE.
C39_StopDiverges ==
    /\ Returned("on_step")
    /\ last.response = "stop"
    /\ last.ret.type = "ESCALATE"
    /\ trace[Len(last.trace_before) + 1].payload.type = "REQUEST_EVIDENCE"
    /\ hook_interventions[Len(hook_interventions)].type = "ESCALATE"
    /\ interventions_issued[Len(interventions_issued)].type = "REQUEST_EVIDENCE"
    /\ ~HasEscalate(interventions_issued)

(***************************************************************************)
(* Properties of PRDAgent.run.                                             *)
(***************************************************************************)
ToolCallsIn(log) == {i \in 1..Len(log) : log[i].type = "tool_call"}

\* The position of the first tool_call or llm_call event after position i,
\* or the position after the end of the log.
NextCallAfter(log, i) ==
    LET later == {j \in (i + 1)..Len(log) : log[j].type \in {"tool_call", "llm_call"}} IN
    IF later = {} THEN Len(log) + 1 ELSE CHOOSE j \in later : \A k \in later : j <= k

\* The observations with the tool_call_id of the tool_call event at
\* position i, between it and the next tool_call or llm_call event.
ObservationsOf(log, i) ==
    {j \in (i + 1)..(NextCallAfter(log, i) - 1) :
        /\ log[j].type = "observation"
        /\ "tool_call_id" \in DOMAIN log[j].payload
        /\ log[j].payload.tool_call_id = log[i].payload.tool_call_id}

\* The tool call whose tool_call event is the last event is being executed.
InFlight(log, i) == agent.pc = "observe" /\ i = Len(log)

\* The tool calls that end with an error: an unknown tool, and read_file,
\* which is asked for an unreadable path.
ErrorExpected(event) == event.payload.tool \notin tools \/ event.payload.tool = "read_file"

Observed(log) ==
    \A i \in ToolCallsIn(log) :
        \/ InFlight(log, i) /\ ObservationsOf(log, i) = {}
        \/ /\ Cardinality(ObservationsOf(log, i)) = 1
           /\ ErrorExpected(log[i]) => \A j \in ObservationsOf(log, i) : log[j].payload.result.error

\* The run made at most max_iterations LLM calls and wrote at most as many
\* llm_call events.
C40_Bounded ==
    /\ agent.llm_calls <= MaxIterations
    /\ agent.iteration <= MaxIterations
    /\ CountType(trace, "llm_call") <= agent.llm_calls

\* A run that was started ends: it returns or it raises.
C40_Terminates == (agent.pc = "loop") ~> (agent.pc \in {"returned", "raised"})

\* No tool_call event has two observations with its tool_call_id.
C40_AtMostOne == \A i \in ToolCallsIn(trace) : Cardinality(ObservationsOf(trace, i)) <= 1

\* While every append to the trace store succeeded, every tool_call event
\* has its observation, with an error for an unknown or raising tool.
C40_ObservedWhileAppended == agent.failed = 0 => Observed(trace)

\* After the observation of a tool call, of an unknown or raising tool
\* too, the run goes on with the next tool call or the next pass.
C40_LoopContinues ==
    [][(agent.pc = "observe" /\ Len(trace') > Len(trace) /\ trace'[Len(trace')].type = "observation"
            /\ "tool_call_id" \in DOMAIN trace'[Len(trace')].payload)
        => agent'.pc \in {"loop", "tools"}]_vars

\* C40: in PRDAgent.run every tool_call event of the trace is followed,
\* before the next tool_call or llm_call event, by exactly one observation
\* with its tool_call_id (the tool call being executed has none yet), with
\* an error when the tool is unknown or raises, and the run makes at most
\* max_iterations LLM calls.
C40_ToolCallsObserved == Observed(trace) /\ C40_Bounded

\* The run returned and a tool_call event of its trace has no observation
\* with its tool_call_id: the append of the observation raised, and the
\* handler around the pass wrote an observation without a tool_call_id.
C40_Unobserved ==
    /\ agent.pc = "returned"
    /\ \E i \in ToolCallsIn(trace) :
        /\ ObservationsOf(trace, i) = {}
        /\ i < Len(trace)
        /\ trace[i + 1].type = "observation"
        /\ "tool_call_id" \notin DOMAIN trace[i + 1].payload

\* A run whose appends all succeeded returned after its last pass: its
\* trace holds the tool calls of two messages, one of an unknown tool, and
\* the artifact event of write_file between a tool_call and its observation.
C40_ObservedRun ==
    /\ agent.pc = "returned"
    /\ agent.failed = 0
    /\ agent.llm_calls = MaxIterations
    /\ Cardinality(ToolCallsIn(trace)) >= 3
    /\ \E i \in ToolCallsIn(trace) : trace[i].payload.tool \notin tools
    /\ \E i \in ToolCallsIn(trace) : trace[i + 1].type = "artifact" /\ ObservationsOf(trace, i) = {i + 2}

====
